---- MODULE Spec2Model ----
(***************************************************************************)
(* Verification model of react-rt-demo.                                    *)
(*                                                                         *)
(* Part I  : the broadcast server (api/src/web-socket.ts) driven by the    *)
(*           timer of GenericObservable.subscribe.                         *)
(* Part II : the client-side network worker                                *)
(*           (ui/public/workers/websocket-shared-worker.js): the Tier-1    *)
(*           readiness queue, the Tier-2 CircularBuffer, the drain loop    *)
(*           and the positional decode state machine.                      *)
(* Part III: the P&L calculator worker                                     *)
(*           (ui/public/workers/pnl-calculator-worker.js).                 *)
(*                                                                         *)
(* Part IV : the update generator (api/src/mock-data-generator.ts) as the  *)
(*           generator function of api/src/index.ts drives it.             *)
(* Part V  : GenericObservable (api/src/generic-observable.ts).            *)
(*                                                                         *)
(* Each part has its own specification; the variables of the other parts   *)
(* keep their initial values.                                              *)
(***************************************************************************)
EXTENDS Integers, Sequences, FiniteSets, TLC

(***************************************************************************)
(* Bounds of the model.                                                    *)
(***************************************************************************)
\* server: number of connections the model accepts over the server's life
MaxConns == 2
\* server: number of Updates the (infinite) generator is pulled for
MaxTicks == 2
\* client: largest Tier-2 capacity (maxBufferSize) a configuration may set
MaxBuf == 3
\* client: largest keepAtEdges a configuration may set
MaxKeep == 1
\* client: number of messages a socket delivers
MaxMsgs == 4
\* client: number of sockets the worker opens over its life
MaxSockets == 2
\* records in the batch of a script with one calculate-pnl message
MaxBatch == 3
\* records in the batches of a script that sends a batch twice
MaxReplayBatch == 1
\* generator: number of stocks in the reference table
DataLength == 2
\* generator: number of times the generator function is resumed
MaxSteps == 3
\* observable: number of subscribe() calls on the observable
MaxSubs == 2
\* observable: largest number of values of a generator that completes
MaxValues == 2
\* observable: number of values a generator is pulled for
MaxPulls == 3
\* warnings: the time the clock is followed for, in milliseconds
MaxTime == 5001
\* ports: number of local consumers that attach to the worker
MaxPorts == 2
\* ports: number of messages the server sends on one socket
MaxFrames == 2

VARIABLES
    \* ---- server (web-socket.ts) ----
    clients,                  \* _wss.clients: connections accepted and not yet closed
    readyState,               \* client.readyState per connection
    isAlive,                  \* extWs.isAlive per connection
    isStreamActive,           \* _isStreamActive
    heartbeatInterval,        \* _heartbeatInterval is defined
    cancelStreamSubscription, \* _cancelStreamSubscription is defined
    hbTimers,                 \* live setInterval timers created by _startHeartbeat
    streamTimers,             \* live setInterval timers created by subscribe
    generated,                \* number of values pulled from the generator so far
    sent,                     \* per connection: the messages passed to send(), in order
    unanswered,               \* per connection: pings sent and not answered by a pong
    failedWrite,              \* per connection: a send() whose socket write failed
    cause,                    \* per connection: why it left OPEN
    activations,              \* number of times _stream.subscribe was called
    serverClosed,             \* close() has been called
    \* ---- client network worker (websocket-shared-worker.js) ----
    isProtobufReady,          \* this.isProtobufReady
    pendingMessages,          \* this.pendingMessages (Tier 1)
    runtimeBuffer,            \* this.runtimeBuffer: buffer and metrics (Tier 2)
    config,                   \* BACKPRESSURE_CONFIG
    isFirstMessage,           \* this.isFirstMessage
    websocket,                \* this.websocket: 0 is null, k > 0 the k-th socket
    sockets,                  \* number of sockets created by connect()
    arrived,                  \* number of message events of the current socket
    processed,                \* the broadcasts made by processRuntimeMessage since the last connect() or disconnect(), in order
    added,                    \* messages passed to runtimeBuffer.add since it was created or cleared
    handedOut,                \* number of getNext() calls since it was created or cleared
    flushed,                  \* how many of the messages of added came out of the Tier-1 queue
    hasDisconnected,          \* disconnect() has run at least once
    undecodable,              \* the numbers of the messages whose payload no decoder accepts
    isProcessing,             \* this.isProcessing
    scheduledSlices,          \* calls of processMessages requested (requestIdleCallback, setTimeout) and not yet made
    now,                      \* Date.now(), in milliseconds
    warnings,                 \* the times at which checkWarningThreshold raised its latest two warnings, in order
    connections,              \* this.connections: the ports of the local consumers
    portLog,                  \* per port: the types of the messages posted to it, in order
    wsState,                  \* readyState of every socket created by connect()
    wsReceived,               \* per socket: messages of the server the browser has received (a task is queued for each)
    wsDispatched,             \* per socket: how many of these tasks have run
    suppressed,               \* per socket: how many of these tasks fired no message event
    \* ---- P&L calculator worker (pnl-calculator-worker.js) ----
    headerData,               \* this.headerData is set
    positions,                \* this.positions
    inbox,                    \* the messages posted to the worker and not yet handled
    calls,                    \* the calculate-pnl messages handled, with the worker's fields and the reply
    \* ---- update generator (mock-data-generator.ts) ----
    dataset,                  \* the imported reference table
    stockWaves,               \* _stockFrequencies, _stockAmplitudes, _stockPhases, _stockTimeOffsets
    data,                     \* _data: the six fields of every stock
    sessionHighs,             \* _sessionHighs
    sessionLows,              \* _sessionLows
    originalPrices,           \* _originalPrices
    updateQueue,              \* _updateQueue[0 .. _queueSize - 1]
    timeStep,                 \* _timeStep
    generatedPrices,          \* per stock: the prices stored as last since construction, in order
    emitted,                  \* the arrays getUpdatedStocks returned to the generator function, in order
    \* ---- GenericObservable (generic-observable.ts) ----
    generatorLength,          \* number of values the generator function yields, or Infinite
    yielded,                  \* number of values _generator has yielded
    intervalIds,              \* number of setInterval calls made by subscribe
    intervalOn,               \* per subscription: its interval timer is live
    received,                 \* per subscription: the values passed to its callback, in order
    unsubscribed,             \* per subscription: where the function subscribe returned was called from ("no" when it was not)
    completed                 \* per subscription: its timer callback has seen done

serverVars == << clients, readyState, isAlive, isStreamActive, heartbeatInterval,
                 cancelStreamSubscription, hbTimers, streamTimers, generated, sent,
                 unanswered, failedWrite, cause, activations, serverClosed >>

clientVars == << isProtobufReady, pendingMessages, runtimeBuffer, config,
                 isFirstMessage, websocket, sockets, arrived, processed, added,
                 handedOut, flushed, hasDisconnected, undecodable, isProcessing,
                 scheduledSlices, now, warnings, connections, portLog, wsState,
                 wsReceived, wsDispatched, suppressed >>

portVars == << connections, portLog, wsState, wsReceived, wsDispatched, suppressed >>

timeVars == << now, warnings >>

processorVars == << isProcessing, scheduledSlices >>

pnlVars == << headerData, positions, inbox, calls >>

genVars == << dataset, stockWaves, data, sessionHighs, sessionLows,
              originalPrices, updateQueue, timeStep, generatedPrices, emitted >>

obsVars == << generatorLength, yielded, intervalIds, intervalOn, received,
              unsubscribed, completed >>

apiVars == << genVars, obsVars >>

vars == << clients, readyState, isAlive, isStreamActive, heartbeatInterval,
           cancelStreamSubscription, hbTimers, streamTimers, generated, sent,
           unanswered, failedWrite, cause, activations, serverClosed,
           isProtobufReady, pendingMessages, runtimeBuffer, config,
           isFirstMessage, websocket, sockets, arrived, processed, added,
           handedOut, flushed, hasDisconnected, undecodable, isProcessing, scheduledSlices, now, warnings, connections, portLog, wsState,
           wsReceived, wsDispatched, suppressed,
           headerData, positions, inbox, calls,
           dataset, stockWaves, data, sessionHighs, sessionLows,
           originalPrices, updateQueue, timeStep, generatedPrices, emitted,
           generatorLength, yielded, intervalIds, intervalOn, received,
           unsubscribed, completed >>

(***************************************************************************)
(* PART I - broadcast server                                               *)
(***************************************************************************)
\* connection c is the c-th connection the server accepts
Conns == 1..MaxConns

\* the encoded Directory (this._headerData); Updates are numbered 1, 2, ...
Header == 0

ServerInit ==
    /\ clients = {}
    /\ readyState = [c \in Conns |-> "NEW"]
    /\ isAlive = [c \in Conns |-> FALSE]
    /\ isStreamActive = FALSE
    /\ heartbeatInterval = FALSE
    /\ cancelStreamSubscription = FALSE
    /\ hbTimers = 0
    /\ streamTimers = 0
    /\ generated = 0
    /\ sent = [c \in Conns |-> << >>]
    /\ unanswered = [c \in Conns |-> 0]
    /\ failedWrite = [c \in Conns |-> FALSE]
    /\ cause = [c \in Conns |-> "none"]
    /\ activations = 0
    /\ serverClosed = FALSE

\* variant: the Directory is not sent inside the connection handler
SendHeaderDeferred(s, c) == s

\* ws.send(Buffer.from(this._headerData)) in the connection handler
SendHeader(s, c) == [s EXCEPT ![c] = Append(@, Header)]

\* variant: every connection subscribes
ShouldActivateAlways == TRUE

\* the condition under which the connection handler subscribes
ShouldActivate == ~isStreamActive

\* the connection handler of listen()
Connection(c) ==
    /\ UNCHANGED << clientVars, pnlVars, apiVars >>
    /\ ~serverClosed
    /\ readyState[c] = "NEW"
    /\ \A d \in Conns : d < c => readyState[d] # "NEW"
    /\ clients' = clients \cup {c}
    /\ readyState' = [readyState EXCEPT ![c] = "OPEN"]
    /\ isAlive' = [isAlive EXCEPT ![c] = TRUE]
    /\ sent' = SendHeader(sent, c)
    /\ IF ShouldActivate
         THEN /\ isStreamActive' = TRUE
              /\ hbTimers' = hbTimers + 1
              /\ heartbeatInterval' = TRUE
              /\ streamTimers' = streamTimers + 1
              /\ cancelStreamSubscription' = TRUE
              /\ activations' = activations + 1
         ELSE UNCHANGED << isStreamActive, hbTimers, heartbeatInterval,
                           streamTimers, cancelStreamSubscription, activations >>
    /\ UNCHANGED << generated, unanswered, failedWrite, cause, serverClosed >>

\* variant: the readyState test is missing from the broadcast loop
BroadcastAllClients(s, msg, failing) ==
    [c \in Conns |-> IF c \in clients THEN Append(s[c], msg) ELSE s[c]]

\* variant: a failing send throws out of forEach (connections visited in
\* order of acceptance), so the connections after the failing one are skipped
BroadcastAbortOnFailure(s, msg, failing) ==
    [c \in Conns |-> IF /\ c \in clients
                        /\ readyState[c] = "OPEN"
                        /\ \A f \in failing : c <= f
                       THEN Append(s[c], msg)
                       ELSE s[c]]

\* variant: the server keeps a backlog, an OPEN connection is sent every
\* Update it has not been sent yet
BroadcastWithBacklog(s, msg, failing) ==
    [c \in Conns |-> IF c \in clients /\ readyState[c] = "OPEN"
                       THEN s[c] \o SelectSeq([k \in 1..msg |-> k],
                                              LAMBDA k : \A i \in 1..Len(s[c]) : s[c][i] # k)
                       ELSE s[c]]

\* the subscribe callback: this._wss.clients.forEach(client => { if OPEN send })
\* failing: the recipients whose socket write fails; send() itself does not throw
Broadcast(s, msg, failing) ==
    [c \in Conns |-> IF c \in clients /\ readyState[c] = "OPEN"
                       THEN Append(s[c], msg)
                       ELSE s[c]]

\* one firing of the interval of GenericObservable.subscribe; the generator of
\* index.ts is `while (true)`, so `done` is never true
Tick ==
    /\ UNCHANGED << clientVars, pnlVars, apiVars >>
    /\ streamTimers > 0
    /\ generated < MaxTicks
    /\ generated' = generated + 1
    /\ \E failing \in SUBSET {c \in clients : readyState[c] = "OPEN"} :
         /\ sent' = Broadcast(sent, generated + 1, failing)
         /\ failedWrite' = [c \in Conns |-> failedWrite[c] \/ c \in failing]
    /\ UNCHANGED << clients, readyState, isAlive, isStreamActive, heartbeatInterval,
                    cancelStreamSubscription, hbTimers, streamTimers, unanswered,
                    cause, activations, serverClosed >>

\* the socket error that follows a failed write: ws marks the socket CLOSING
\* and destroys it; the error handler of listen() only logs
ErrorEvent(c) ==
    /\ UNCHANGED << clientVars, pnlVars, apiVars >>
    /\ failedWrite[c]
    /\ readyState[c] = "OPEN"
    /\ readyState' = [readyState EXCEPT ![c] = "CLOSING"]
    /\ cause' = [cause EXCEPT ![c] = "error"]
    /\ UNCHANGED << clients, isAlive, isStreamActive, heartbeatInterval,
                    cancelStreamSubscription, hbTimers, streamTimers, generated,
                    sent, unanswered, failedWrite, activations, serverClosed >>

\* the peer starts the closing handshake: the connection is CLOSING until its
\* close event
BeginClose(c) ==
    /\ UNCHANGED << clientVars, pnlVars, apiVars >>
    /\ readyState[c] = "OPEN"
    /\ readyState' = [readyState EXCEPT ![c] = "CLOSING"]
    /\ cause' = [cause EXCEPT ![c] = "client"]
    /\ UNCHANGED << clients, isAlive, isStreamActive, heartbeatInterval,
                    cancelStreamSubscription, hbTimers, streamTimers, generated,
                    sent, unanswered, failedWrite, activations, serverClosed >>

\* variant: _stopHeartbeat leaves the interval running
StopHeartbeatSkipped(timers) == timers

\* _stopHeartbeat(): clearInterval when _heartbeatInterval is defined
StopHeartbeat(timers) == IF heartbeatInterval THEN timers - 1 ELSE timers

\* variant: the close handler tears the subscription down at every close
NoMoreClientsAnyClose(cs) == TRUE

\* this._wss.clients.size === 0, evaluated after ws removed the closed socket
NoMoreClients(cs) == Cardinality(cs) = 0

\* the close handler of listen(); ws has already deleted the socket from
\* clients, and the socket object (isAlive, its pings and writes) is gone
CloseEvent(c) ==
    /\ UNCHANGED << clientVars, pnlVars, apiVars >>
    /\ c \in clients
    /\ clients' = clients \ {c}
    /\ readyState' = [readyState EXCEPT ![c] = "CLOSED"]
    /\ cause' = [cause EXCEPT ![c] = IF @ = "none" THEN "client" ELSE @]
    /\ IF NoMoreClients(clients')
         THEN /\ hbTimers' = StopHeartbeat(hbTimers)
              /\ heartbeatInterval' = FALSE
              /\ isStreamActive' = FALSE
              /\ streamTimers' = IF cancelStreamSubscription
                                   THEN streamTimers - 1 ELSE streamTimers
              /\ cancelStreamSubscription' = FALSE
         ELSE UNCHANGED << hbTimers, heartbeatInterval, isStreamActive,
                           streamTimers, cancelStreamSubscription >>
    /\ isAlive' = [isAlive EXCEPT ![c] = FALSE]
    /\ unanswered' = [unanswered EXCEPT ![c] = 0]
    /\ failedWrite' = [failedWrite EXCEPT ![c] = FALSE]
    /\ UNCHANGED << generated, sent, activations, serverClosed >>

\* variant: the heartbeat pings without clearing isAlive
MarkPingedForgotten(a, c) == a

\* extWs.isAlive = false before extWs.ping()
MarkPinged(a, c) == [a EXCEPT ![c] = FALSE]

\* one firing of the interval of _startHeartbeat
Heartbeat ==
    /\ UNCHANGED << clientVars, pnlVars, apiVars >>
    /\ hbTimers > 0
    /\ readyState' = [c \in Conns |->
            IF c \in clients /\ ~isAlive[c] /\ readyState[c] = "OPEN"
              THEN "CLOSING" ELSE readyState[c]]
    /\ cause' = [c \in Conns |->
            IF c \in clients /\ ~isAlive[c] /\ readyState[c] = "OPEN"
              THEN "terminate" ELSE cause[c]]
    /\ \E alive \in {{c \in clients : isAlive[c]}} :
         /\ isAlive' = [c \in Conns |-> IF c \in alive
                                          THEN MarkPinged(isAlive, c)[c]
                                          ELSE isAlive[c]]
         /\ unanswered' = [c \in Conns |->
                IF c \in alive /\ readyState[c] = "OPEN"
                  THEN unanswered[c] + 1 ELSE unanswered[c]]
    /\ UNCHANGED << clients, isStreamActive, heartbeatInterval,
                    cancelStreamSubscription, hbTimers, streamTimers, generated,
                    sent, failedWrite, activations, serverClosed >>

\* variant: the pong handler leaves isAlive as the heartbeat set it
MarkAliveIgnored(a, c) == a

\* extWs.isAlive = true in the pong handler
MarkAlive(a, c) == [a EXCEPT ![c] = TRUE]

\* the pong handler
Pong(c) ==
    /\ UNCHANGED << clientVars, pnlVars, apiVars >>
    /\ readyState[c] = "OPEN"
    /\ unanswered[c] > 0
    /\ isAlive' = MarkAlive(isAlive, c)
    /\ unanswered' = [unanswered EXCEPT ![c] = @ - 1]
    /\ UNCHANGED << clients, readyState, isStreamActive, heartbeatInterval,
                    cancelStreamSubscription, hbTimers, streamTimers, generated,
                    sent, failedWrite, cause, activations, serverClosed >>

\* WebSocketServer.close(); ws 8 stops accepting connections and leaves the
\* accepted ones alone
Close ==
    /\ UNCHANGED << clientVars, pnlVars, apiVars >>
    /\ ~serverClosed
    /\ serverClosed' = TRUE
    /\ hbTimers' = StopHeartbeat(hbTimers)
    /\ heartbeatInterval' = FALSE
    /\ streamTimers' = IF cancelStreamSubscription THEN streamTimers - 1 ELSE streamTimers
    /\ cancelStreamSubscription' = FALSE
    /\ isStreamActive' = FALSE
    /\ UNCHANGED << clients, readyState, isAlive, generated, sent, unanswered,
                    failedWrite, cause, activations >>

(***************************************************************************)
(* PART II - client network worker                                         *)
(***************************************************************************)
Min(a, b) == IF a < b THEN a ELSE b

Max(a, b) == IF a > b THEN a ELSE b

\* the values of dropStrategy; "other" stands for any string that add()
\* sends to the default branch of its switch
Strategies == {"drop-oldest", "drop-newest", "drop-middle", "other"}

\* the configurations update-backpressure-config may install
Configs == [maxBufferSize : 1..MaxBuf, dropStrategy : Strategies, keepAtEdges : 0..MaxKeep]

\* BACKPRESSURE_CONFIG as the module defines it (capacity 100, drop-oldest,
\* keepAtEdges 10), scaled to the model: the largest capacity, 2K < capacity
DefaultConfig == [maxBufferSize |-> MaxBuf, dropStrategy |-> "drop-oldest", keepAtEdges |-> 1]

\* new CircularBuffer(): empty buffer, metrics at zero
EmptyBuffer ==
    [buffer |-> << >>, droppedCount |-> 0, totalReceived |-> 0, peakBufferSize |-> 0,
     lastWarningTime |-> 0]

\* the n-th message event of socket k; the server sends the Directory as
\* message 1 and Updates after it
Message(k, n) == [sock |-> k, n |-> n]

\* Array.prototype.slice(start, end) for 0 <= start, 0 <= end
JsSlice(a, start, end) == SubSeq(a, Min(start, Len(a)) + 1, Min(end, Len(a)))

\* Array.prototype.slice(start) for any integer start: a negative start counts
\* from the end, and -0 is 0
JsSliceFrom(a, start) ==
    LET k == IF start < 0 THEN Max(Len(a) + start, 0) ELSE Min(start, Len(a))
    IN  SubSeq(a, k + 1, Len(a))

\* variant: pop() instead of shift(), the newest buffered message is evicted
PopPush(buf, m) ==
    Append(IF buf = << >> THEN buf ELSE SubSeq(buf, 1, Len(buf) - 1), m)

\* Array.prototype.shift() followed by push(m); shift() of an empty array
\* removes nothing
ShiftPush(buf, m) == Append(IF buf = << >> THEN buf ELSE Tail(buf), m)

\* variant: the kept tail is put in front of the kept head
DropMiddleStrategySwapped(buf, cfg, m) ==
    LET keepCount == cfg.keepAtEdges
        totalToKeep == keepCount * 2
    IN  IF totalToKeep >= cfg.maxBufferSize
          THEN ShiftPush(buf, m)
          ELSE JsSliceFrom(buf, 0 - keepCount) \o JsSlice(buf, 0, keepCount) \o << m >>

\* CircularBuffer.dropMiddleStrategy
DropMiddleStrategy(buf, cfg, m) ==
    LET keepCount == cfg.keepAtEdges
        totalToKeep == keepCount * 2
    IN  IF totalToKeep >= cfg.maxBufferSize
          THEN ShiftPush(buf, m)
          ELSE JsSlice(buf, 0, keepCount) \o JsSliceFrom(buf, 0 - keepCount) \o << m >>

\* variant: the 'drop-newest' case is missing and falls to the default branch
ApplyDropStrategyNoNewest(buf, cfg, m) ==
    CASE cfg.dropStrategy = "drop-middle" -> DropMiddleStrategy(buf, cfg, m)
      [] OTHER -> ShiftPush(buf, m)

\* the switch of CircularBuffer.add on a full buffer
ApplyDropStrategy(buf, cfg, m) ==
    CASE cfg.dropStrategy = "drop-oldest" -> ShiftPush(buf, m)
      [] cfg.dropStrategy = "drop-newest" -> buf
      [] cfg.dropStrategy = "drop-middle" -> DropMiddleStrategy(buf, cfg, m)
      [] OTHER -> ShiftPush(buf, m)

\* warningThreshold of BACKPRESSURE_CONFIG (0.8), in percent
WarningThreshold == 80

\* the shortest time between two warnings, in milliseconds
WarningInterval == 5000

\* a value of Date.now() at which the worker is constructed
Epoch == 10000

\* CircularBuffer.checkWarningThreshold
CheckWarningThreshold(cb, cfg) ==
    IF /\ 100 * Len(cb.buffer) >= WarningThreshold * cfg.maxBufferSize
       /\ now - cb.lastWarningTime > WarningInterval
      THEN [cb EXCEPT !.lastWarningTime = now]
      ELSE cb

\* CircularBuffer.add
BufferAdd(cb, cfg, m) ==
    IF Len(cb.buffer) < cfg.maxBufferSize
      THEN [cb EXCEPT !.totalReceived = @ + 1,
                      !.buffer = Append(@, m),
                      !.peakBufferSize = Max(@, Len(cb.buffer) + 1)]
      ELSE CheckWarningThreshold([cb EXCEPT !.totalReceived = @ + 1,
                                            !.droppedCount = @ + 1,
                                            !.buffer = ApplyDropStrategy(@, cfg, m)],
                                 cfg)

\* the warnings raised so far once add() has taken the buffer from cb to
\* after: all the calls of one handler read the same Date.now(), so at most
\* one of them raises a warning
WarningsAfter(cb, after) ==
    IF after.lastWarningTime # cb.lastWarningTime
      THEN IF warnings = << >> THEN << now >> ELSE << warnings[Len(warnings)], now >>
      ELSE warnings

\* add() applied to each message of ms, in order
RECURSIVE BufferAddAll(_, _, _)
BufferAddAll(cb, cfg, ms) ==
    IF ms = << >> THEN cb
    ELSE BufferAddAll(BufferAdd(cb, cfg, Head(ms)), cfg, Tail(ms))

\* the branch of processRuntimeMessage taken for a message
DecodeKind(first) == IF first THEN "header" ELSE "update"

\* decode() of either message type accepts the payload of m
Decodes(m) == m.n \notin undecodable

\* processRuntimeMessage applied to each message of ms, in order: the log of
\* the messages it broadcasts, starting with isFirstMessage = first; a
\* decode that throws leaves isFirstMessage alone and broadcasts an error
RECURSIVE ProcessAll(_, _)
ProcessAll(ms, first) ==
    IF ms = << >> THEN << >>
    ELSE IF Decodes(Head(ms))
      THEN << [msg |-> Head(ms), kind |-> DecodeKind(first)] >> \o ProcessAll(Tail(ms), FALSE)
      ELSE << [msg |-> Head(ms), kind |-> "error"] >> \o ProcessAll(Tail(ms), first)

\* isFirstMessage after processRuntimeMessage has been applied to each
\* message of ms
FirstAfter(ms, first) == first /\ \A k \in 1..Len(ms) : ~Decodes(ms[k])

\* the ports of the local consumers
Ports == 1..MaxPorts

\* the worker after its constructor
WorkerConstructor ==
    /\ isProtobufReady = FALSE
    /\ pendingMessages = << >>
    /\ runtimeBuffer = EmptyBuffer
    /\ config = DefaultConfig
    /\ isFirstMessage = TRUE
    /\ websocket = 0
    /\ sockets = 0
    /\ arrived = 0
    /\ processed = << >>
    /\ added = << >>
    /\ handedOut = 0
    /\ flushed = 0
    /\ hasDisconnected = FALSE
    /\ isProcessing = FALSE
    /\ scheduledSlices = 1
    /\ now = Epoch
    /\ warnings = << >>
    /\ wsState = [k \in 1..MaxSockets |-> "NONE"]
    /\ wsReceived = [k \in 1..MaxSockets |-> 0]
    /\ wsDispatched = [k \in 1..MaxSockets |-> 0]
    /\ suppressed = [k \in 1..MaxSockets |-> 0]

\* no consumer has attached to the worker
NoPorts ==
    /\ connections = {}
    /\ portLog = [p \in Ports |-> << >>]

\* addConnection has attached the first consumer
FirstPort ==
    /\ connections = {1}
    /\ portLog = [p \in Ports |-> IF p = 1 THEN << "worker-ready" >> ELSE << >>]

\* the worker after its constructor, on a socket whose payloads all decode
ClientInit == WorkerConstructor /\ NoPorts /\ undecodable = {}

\* initializeProtobuf with a processPendingMessages that takes the queued
\* events with pop() instead of shift(): newest first
ProtobufReadyNewestFirst ==
    /\ UNCHANGED << serverVars, pnlVars, apiVars, undecodable, processorVars, now, portVars >>
    /\ ~isProtobufReady
    /\ isProtobufReady' = TRUE
    /\ LET reversed == [i \in 1..Len(pendingMessages) |->
                           pendingMessages[Len(pendingMessages) + 1 - i]]
       IN  /\ runtimeBuffer' = BufferAddAll(runtimeBuffer, config, reversed)
           /\ added' = added \o reversed
    /\ flushed' = Len(pendingMessages)
    /\ pendingMessages' = << >>
    /\ UNCHANGED << config, isFirstMessage, websocket, sockets, arrived,
                    processed, handedOut, hasDisconnected >>
    /\ warnings' = WarningsAfter(runtimeBuffer, runtimeBuffer')

\* initializeProtobuf completes: isProtobufReady = true, then
\* processPendingMessages hands every queued event to handleWebSocketMessage
ProtobufReady ==
    /\ UNCHANGED << serverVars, pnlVars, apiVars, undecodable, processorVars, now, portVars >>
    /\ ~isProtobufReady
    /\ isProtobufReady' = TRUE
    /\ runtimeBuffer' = BufferAddAll(runtimeBuffer, config, pendingMessages)
    /\ added' = added \o pendingMessages
    /\ flushed' = Len(pendingMessages)
    /\ pendingMessages' = << >>
    /\ UNCHANGED << config, isFirstMessage, websocket, sockets, arrived,
                    processed, handedOut, hasDisconnected >>
    /\ warnings' = WarningsAfter(runtimeBuffer, runtimeBuffer')

\* websocket.onmessage -> handleWebSocketMessage
HandleWebSocketMessage(m) ==
    /\ IF ~isProtobufReady
         THEN /\ pendingMessages' = Append(pendingMessages, m)
              /\ UNCHANGED << runtimeBuffer, added >>
         ELSE /\ runtimeBuffer' = BufferAdd(runtimeBuffer, config, m)
              /\ added' = Append(added, m)
              /\ UNCHANGED pendingMessages
    /\ warnings' = WarningsAfter(runtimeBuffer, runtimeBuffer')

\* websocket.onmessage of the current socket
WsMessage ==
    /\ UNCHANGED << serverVars, pnlVars, apiVars, undecodable, processorVars, now, portVars >>
    /\ websocket # 0
    /\ arrived < MaxMsgs
    /\ arrived' = arrived + 1
    /\ HandleWebSocketMessage(Message(websocket, arrived + 1))
    /\ UNCHANGED << isProtobufReady, config, isFirstMessage, websocket, sockets,
                    processed, handedOut, flushed, hasDisconnected >>

\* variant: processMessages does not request its next call
ScheduledAfterNoRequest(n, processing) == n - 1

\* the calls of processMessages requested once one of them has run: it is no
\* longer requested, and it requests one more call unless it returned at
\* the isProcessing guard
ScheduledAfter(n, processing) == IF processing THEN n - 1 ELSE n - 1 + 1

\* one slice of the drain loop of startRuntimeProcessor: it handles at least
\* one message of a non-empty buffer and stops when the buffer is empty or
\* the 8 ms budget is used up; isProcessing is set for the time of the loop
\* and cleared in the finally block
ProcessMessages ==
    /\ UNCHANGED << serverVars, pnlVars, apiVars, undecodable, timeVars >>
    /\ scheduledSlices > 0
    /\ scheduledSlices' = ScheduledAfter(scheduledSlices, isProcessing)
    /\ IF isProcessing
         THEN UNCHANGED << isProcessing, processed, runtimeBuffer, handedOut,
                           isFirstMessage >>
         ELSE /\ isProcessing' = FALSE
              /\ \E k \in IF runtimeBuffer.buffer = << >>
                              THEN {0} ELSE 1..Len(runtimeBuffer.buffer) :
                   /\ processed' = processed
                         \o ProcessAll(SubSeq(runtimeBuffer.buffer, 1, k), isFirstMessage)
                   /\ runtimeBuffer' = [runtimeBuffer EXCEPT
                                           !.buffer = SubSeq(@, k + 1, Len(@))]
                   /\ handedOut' = handedOut + k
                   /\ isFirstMessage' = FirstAfter(SubSeq(runtimeBuffer.buffer, 1, k),
                                                   isFirstMessage)
    /\ UNCHANGED << isProtobufReady, pendingMessages, config, websocket, sockets,
                    arrived, added, flushed, hasDisconnected >>

\* one slice of the drain loop, its broadcasts kept in processed only
DrainSlice == ProcessMessages /\ UNCHANGED portVars

\* variant: clear() leaves the buffer as it is
ClearSkipped(cb) == cb

\* CircularBuffer.clear
Clear(cb) == EmptyBuffer

\* disconnect(): close the socket, empty both tiers, reset the metrics
WorkerDisconnect ==
    /\ UNCHANGED << serverVars, pnlVars, apiVars, undecodable, processorVars, timeVars >>
    /\ websocket' = 0
    /\ pendingMessages' = << >>
    /\ runtimeBuffer' = Clear(runtimeBuffer)
    /\ added' = << >>
    /\ handedOut' = 0
    /\ flushed' = 0
    /\ processed' = << >>
    /\ hasDisconnected' = TRUE
    /\ UNCHANGED << isProtobufReady, config, isFirstMessage, sockets, arrived >>

\* disconnect() seen from the worker's own fields
Disconnect == WorkerDisconnect /\ UNCHANGED portVars

\* connect() without line 270: the decode flag keeps its value
ConnectKeepsDecoder ==
    /\ UNCHANGED << serverVars, pnlVars, apiVars, undecodable, processorVars, timeVars, portVars >>
    /\ sockets < MaxSockets
    /\ sockets' = sockets + 1
    /\ websocket' = sockets + 1
    /\ arrived' = 0
    /\ IF websocket # 0
         THEN /\ pendingMessages' = << >>
              /\ runtimeBuffer' = EmptyBuffer
              /\ added' = << >>
              /\ handedOut' = 0
              /\ flushed' = 0
              /\ hasDisconnected' = TRUE
         ELSE UNCHANGED << pendingMessages, runtimeBuffer, added, handedOut, flushed,
                           hasDisconnected >>
    /\ processed' = << >>
    /\ UNCHANGED << isProtobufReady, config, isFirstMessage >>

\* connect(): disconnect() when a socket exists, then a new socket and
\* isFirstMessage = true
WorkerConnect ==
    /\ UNCHANGED << serverVars, pnlVars, apiVars, undecodable, processorVars, timeVars >>
    /\ sockets < MaxSockets
    /\ sockets' = sockets + 1
    /\ websocket' = sockets + 1
    /\ arrived' = 0
    /\ isFirstMessage' = TRUE
    /\ IF websocket # 0
         THEN /\ pendingMessages' = << >>
              /\ runtimeBuffer' = Clear(runtimeBuffer)
              /\ added' = << >>
              /\ handedOut' = 0
              /\ flushed' = 0
              /\ hasDisconnected' = TRUE
         ELSE UNCHANGED << pendingMessages, runtimeBuffer, added, handedOut, flushed,
                           hasDisconnected >>
    /\ processed' = << >>
    /\ UNCHANGED << isProtobufReady, config >>

\* connect() seen from the worker's own fields: the life of the sockets and
\* the ports are left out
Connect == WorkerConnect /\ UNCHANGED portVars

\* updateBackpressureConfig without the transfer loop: the new buffer
\* starts empty
UpdateBackpressureConfigNoTransfer(newConfig) ==
    /\ UNCHANGED << serverVars, pnlVars, apiVars, undecodable, processorVars, timeVars, portVars >>
    /\ config' = newConfig
    /\ runtimeBuffer' = EmptyBuffer
    /\ added' = << >>
    /\ handedOut' = 0
    /\ flushed' = 0
    /\ UNCHANGED << isProtobufReady, pendingMessages, isFirstMessage, websocket,
                    sockets, arrived, processed, hasDisconnected >>

\* updateBackpressureConfig: Object.assign into BACKPRESSURE_CONFIG, a new
\* CircularBuffer, and every buffered message re-added to it in order
UpdateBackpressureConfig(newConfig) ==
    /\ UNCHANGED << serverVars, pnlVars, apiVars, undecodable, processorVars, now, portVars >>
    /\ config' = newConfig
    /\ runtimeBuffer' = BufferAddAll(EmptyBuffer, newConfig, runtimeBuffer.buffer)
    /\ added' = runtimeBuffer.buffer
    /\ handedOut' = 0
    /\ flushed' = 0
    /\ UNCHANGED << isProtobufReady, pendingMessages, isFirstMessage, websocket,
                    sockets, arrived, processed, hasDisconnected >>
    /\ warnings' = WarningsAfter(EmptyBuffer, runtimeBuffer')

\* ---- the sockets and the ports of the worker ----
\* broadcastMessage: postMessage of every message of types to every port of
\* this.connections
BroadcastMessage(log, types) ==
    [p \in Ports |-> IF p \in connections THEN log[p] \o types ELSE log[p]]

\* WebSocket.close() on socket k (0: there is none): readyState becomes
\* CLOSING, told apart here by whether the connection was established
\* (CLOSING) or not (FAILING)
CloseSocket(st, k) ==
    IF k = 0 THEN st
    ELSE [st EXCEPT ![k] = CASE @ = "CONNECTING" -> "FAILING"
                             [] @ = "OPEN" -> "CLOSING"
                             [] OTHER -> @]

\* the task queued for a received message fires a message event only while
\* the socket's readyState is OPEN
MessageEventFires(state) == state = "OPEN"

\* addConnection: the port joins this.connections and is told worker-ready
AddConnection(p) ==
    /\ UNCHANGED << serverVars, pnlVars, apiVars, undecodable, processorVars, timeVars >>
    /\ p \notin connections
    /\ portLog[p] = << >>
    /\ connections' = connections \cup {p}
    /\ portLog' = [portLog EXCEPT ![p] = << "worker-ready" >>]
    /\ UNCHANGED << isProtobufReady, pendingMessages, runtimeBuffer, config,
                    isFirstMessage, websocket, sockets, arrived, processed, added,
                    handedOut, flushed, hasDisconnected, wsState, wsReceived,
                    wsDispatched, suppressed >>

\* a port posts connect: connect() closes the socket it has and creates the
\* next one, with its four handlers
PortConnect ==
    /\ connections # {}
    /\ WorkerConnect
    /\ wsState' = [CloseSocket(wsState, websocket) EXCEPT ![sockets + 1] = "CONNECTING"]
    /\ UNCHANGED << connections, portLog, wsReceived, wsDispatched, suppressed >>

\* a port posts disconnect: disconnect() closes the socket
PortDisconnect ==
    /\ connections # {}
    /\ WorkerDisconnect
    /\ wsState' = CloseSocket(wsState, websocket)
    /\ UNCHANGED << connections, portLog, wsReceived, wsDispatched, suppressed >>

\* the onopen handler connect() gave socket k
WsOpen(k) ==
    /\ UNCHANGED << serverVars, pnlVars, apiVars, undecodable, processorVars, timeVars >>
    /\ wsState[k] = "CONNECTING"
    /\ wsState' = [wsState EXCEPT ![k] = "OPEN"]
    /\ portLog' = BroadcastMessage(portLog, << "connected" >>)
    /\ UNCHANGED << isProtobufReady, pendingMessages, runtimeBuffer, config,
                    isFirstMessage, websocket, sockets, arrived, processed, added,
                    handedOut, flushed, hasDisconnected, connections, wsReceived,
                    wsDispatched, suppressed >>

\* the browser receives the next message of the server on socket k, also
\* while the closing handshake is under way, and queues a task for it
WsReceive(k) ==
    /\ UNCHANGED << serverVars, pnlVars, apiVars, undecodable, processorVars, timeVars >>
    /\ wsState[k] \in {"OPEN", "CLOSING"}
    /\ wsReceived[k] < MaxFrames
    /\ wsReceived' = [wsReceived EXCEPT ![k] = @ + 1]
    /\ UNCHANGED << isProtobufReady, pendingMessages, runtimeBuffer, config,
                    isFirstMessage, websocket, sockets, arrived, processed, added,
                    handedOut, flushed, hasDisconnected, connections, portLog,
                    wsState, wsDispatched, suppressed >>

\* the task of a received message runs: the onmessage handler connect() gave
\* socket k calls handleWebSocketMessage, whichever socket is the current one
WsDispatch(k) ==
    /\ UNCHANGED << serverVars, pnlVars, apiVars, undecodable, processorVars, now >>
    /\ wsDispatched[k] < wsReceived[k]
    /\ wsDispatched' = [wsDispatched EXCEPT ![k] = @ + 1]
    /\ IF MessageEventFires(wsState[k])
         THEN /\ HandleWebSocketMessage(Message(k, wsDispatched[k] + 1))
              /\ arrived' = IF k = websocket THEN arrived + 1 ELSE arrived
              /\ UNCHANGED suppressed
         ELSE /\ suppressed' = [suppressed EXCEPT ![k] = @ + 1]
              /\ UNCHANGED << pendingMessages, runtimeBuffer, added, warnings, arrived >>
    /\ UNCHANGED << isProtobufReady, config, isFirstMessage, websocket, sockets,
                    processed, handedOut, flushed, hasDisconnected, connections,
                    portLog, wsState, wsReceived >>

\* the connection of socket k is closed, by the closing handshake close()
\* started or by the server, once the tasks of its messages have run: the
\* onclose handler connect() gave socket k
WsClose(k) ==
    /\ UNCHANGED << serverVars, pnlVars, apiVars, undecodable, processorVars, timeVars >>
    /\ wsState[k] \in {"OPEN", "CLOSING", "FAILING"}
    /\ wsDispatched[k] = wsReceived[k]
    /\ wsState' = [wsState EXCEPT ![k] = "CLOSED"]
    /\ portLog' = BroadcastMessage(portLog, << "disconnected" >>)
    /\ UNCHANGED << isProtobufReady, pendingMessages, runtimeBuffer, config,
                    isFirstMessage, websocket, sockets, arrived, processed, added,
                    handedOut, flushed, hasDisconnected, connections, wsReceived,
                    wsDispatched, suppressed >>

\* one slice of the drain loop: every message processRuntimeMessage decodes
\* is broadcast to the ports
PortDrain ==
    /\ runtimeBuffer.buffer # << >>
    /\ ProcessMessages
    /\ portLog' = BroadcastMessage(portLog,
                      [i \in 1..(Len(processed') - Len(processed)) |->
                          processed'[Len(processed) + i].kind])
    /\ UNCHANGED << connections, wsState, wsReceived, wsDispatched, suppressed >>

(***************************************************************************)
(* PART III - P&L calculator worker                                        *)
(*                                                                         *)
(* Numbers are decimals with a fixed denominator: a price p stands for     *)
(* p / (2 * Scale), that is half ten-thousandths, and a quantity q for     *)
(* q / 2, so that Math.round has something to round.  A percentage is a    *)
(* fraction in lowest terms; the rounding of floating-point division is    *)
(* not modelled.                                                           *)
(***************************************************************************)
\* the fixed-point factor of calculatePnL
Scale == 10000

\* the symbol indexes of the Directory
Symbols == 0..2

Abs(a) == IF a < 0 THEN 0 - a ELSE a

RECURSIVE Gcd(_, _)
Gcd(a, b) == IF b = 0 THEN a ELSE Gcd(b, a % b)

\* the number n / d (d > 0)
Fraction(n, d) ==
    LET g == Gcd(Abs(n), d)
    IN  [num |-> n \div g, den |-> d \div g]

\* the number 0
Zero == [num |-> 0, den |-> 1]

\* x < y on fractions
Less(x, y) == x.num * y.den < y.num * x.den

\* (part / whole) * 100
Percentage(part, whole) == Fraction(part * 100, whole)

\* the price dollars + f / (2 * Scale) and the quantity whole + halves / 2
Price(dollars, f) == dollars * 2 * Scale + f

Quantity(whole, halves) == 2 * whole + halves

\* Math.round(price * 10000): halves are rounded up
ScaledPrice(price) == (price + 1) \div 2

\* Math.round(quantity): halves are rounded up
RoundedQuantity(quantity) == (quantity + 1) \div 2

\* BigInt division: the quotient is truncated toward zero
BigIntDiv(a, b) == IF a >= 0 THEN a \div b ELSE 0 - ((0 - a) \div b)

\* a hole of the positions array, and an entry [quantity, entryPrice]
NoPosition == << >>

Position(quantity, entryPrice) == << quantity, entryPrice >>

\* variant: high and low change places in the enriched record
StockDataSwapped(record, unrealizedPL, unrealizedPLPercentage) ==
    << record[1], record[2], record[3], record[4], record[6], record[5], record[7],
       unrealizedPL, unrealizedPLPercentage >>

\* the stockData array of calculatePnL: the 7 fields read from rawData and
\* the two computed ones
StockData(record, unrealizedPL, unrealizedPLPercentage) ==
    << record[1], record[2], record[3], record[4], record[5], record[6], record[7],
       unrealizedPL, unrealizedPLPercentage >>

\* the loop of _insertSorted from offset j on: the offset at which it stops
RECURSIVE InsertIndex(_, _, _, _)
InsertIndex(array, pnlPercentage, isLoss, j) ==
    IF j >= Len(array) THEN j
    ELSE LET existingPLPercentage == array[j + 9]
         IN  IF \/ isLoss /\ Less(pnlPercentage, existingPLPercentage)
                \/ ~isLoss /\ Less(existingPLPercentage, pnlPercentage)
               THEN j
               ELSE InsertIndex(array, pnlPercentage, isLoss, j + 9)

\* variant: the record is pushed at the end of the array
InsertAtEnd(array, stockData, pnlPercentage, isLoss) == array \o stockData

\* _insertSorted: array.splice(insertIndex, 0, ...stockData)
InsertSorted(array, stockData, pnlPercentage, isLoss) ==
    LET insertIndex == InsertIndex(array, pnlPercentage, isLoss, 0)
    IN  SubSeq(array, 1, insertIndex) \o stockData
            \o SubSeq(array, insertIndex + 1, Len(array))

\* variant: the totals and counts are fields of the worker that keep the
\* values of the previous batch
CarriedAccumulators ==
    LET fresh == [lossesData |-> << >>, profitsData |-> << >>,
                  totalPnlAmountBigInt |-> 0, totalInvestedAmountBigInt |-> 0,
                  positiveCount |-> 0, negativeCount |-> 0]
    IN  IF calls = << >> \/ calls[Len(calls)].result.passed THEN fresh
        ELSE [fresh EXCEPT
                !.totalPnlAmountBigInt = calls[Len(calls)].result.aggregates.pnlAmount,
                !.positiveCount = calls[Len(calls)].result.aggregates.pCount,
                !.negativeCount = calls[Len(calls)].result.aggregates.lCount]

\* the locals of calculatePnL before its loop
InitialAccumulators ==
    [lossesData |-> << >>, profitsData |-> << >>,
     totalPnlAmountBigInt |-> 0, totalInvestedAmountBigInt |-> 0,
     positiveCount |-> 0, negativeCount |-> 0]

\* one iteration of the loop of calculatePnL, for the record at offset i
CalculateRecord(acc, pos, rawData, i) ==
    LET symbolIndex == rawData[i + 1]
        position == IF symbolIndex \in DOMAIN pos THEN pos[symbolIndex] ELSE NoPosition
    IN  IF position = NoPosition THEN acc
        ELSE
          LET quantity == position[1]
              entryPrice == position[2]
              currentPrice == rawData[i + 2]
              currentPriceBigInt == ScaledPrice(currentPrice)
              entryPriceBigInt == ScaledPrice(entryPrice)
              quantityBigInt == RoundedQuantity(quantity)
              priceDiffBigInt == currentPriceBigInt - entryPriceBigInt
              unrealizedPLBigInt == BigIntDiv(priceDiffBigInt * quantityBigInt, Scale)
              investedAmountBigInt == BigIntDiv(entryPriceBigInt * quantityBigInt, Scale)
              unrealizedPL == unrealizedPLBigInt
              unrealizedPLPercentage ==
                  IF entryPrice > 0 THEN Percentage(currentPrice - entryPrice, entryPrice)
                                    ELSE Zero
              stockData == StockData(SubSeq(rawData, i + 1, i + 7), unrealizedPL,
                                     unrealizedPLPercentage)
              isLoss == Less(unrealizedPLPercentage, Zero)
          IN  [acc EXCEPT
                 !.totalPnlAmountBigInt = @ + unrealizedPLBigInt,
                 !.totalInvestedAmountBigInt = @ + investedAmountBigInt,
                 !.positiveCount = IF unrealizedPL > 0 THEN @ + 1 ELSE @,
                 !.negativeCount = IF unrealizedPL < 0 THEN @ + 1 ELSE @,
                 !.lossesData = IF isLoss
                                  THEN InsertSorted(@, stockData, unrealizedPLPercentage, TRUE)
                                  ELSE @,
                 !.profitsData = IF isLoss
                                   THEN @
                                   ELSE InsertSorted(@, stockData, unrealizedPLPercentage, FALSE)]

\* the loop of calculatePnL from offset i on
RECURSIVE CalculateLoop(_, _, _, _)
CalculateLoop(acc, pos, rawData, i) ==
    IF i >= Len(rawData) THEN acc
    ELSE CalculateLoop(CalculateRecord(acc, pos, rawData, i), pos, rawData, i + 7)

\* a rawData array, and a rawData that is null or undefined
Batch(items) == [absent |-> FALSE, items |-> items]

AbsentBatch == [absent |-> TRUE, items |-> << >>]

\* variant: no guard in front of the computation
PassesThroughNever(header, rawData) == FALSE

\* the guard of calculatePnL: !this.headerData || !rawData (an empty array
\* is truthy)
PassesThrough(header, rawData) == ~header \/ rawData.absent

\* calculatePnL: its input handed back, or the ranked records and the
\* aggregates
CalculatePnL(header, pos, rawData, timestamp) ==
    IF PassesThrough(header, rawData)
      THEN [passed |-> TRUE, value |-> rawData]
      ELSE
        LET acc == CalculateLoop(InitialAccumulators, pos, rawData.items, 0)
            totalPnlAmount == acc.totalPnlAmountBigInt
            totalInvestedAmount == acc.totalInvestedAmountBigInt
            totalPnlPercentage ==
                IF totalInvestedAmount > 0
                  THEN Percentage(totalPnlAmount, totalInvestedAmount)
                  ELSE Zero
        IN  [passed |-> FALSE,
             data |-> acc.lossesData \o acc.profitsData,
             timestamp |-> timestamp,
             aggregates |-> [pnlAmount |-> totalPnlAmount,
                             pnlPercentage |-> totalPnlPercentage,
                             pCount |-> acc.positiveCount,
                             lCount |-> acc.negativeCount]]

\* ---- the calculatePnL of ui/workers/websocket.worker.ts ----
\* variant: a sort that is not stable, equal elements change places
SortTiesReversed(arrays, descending) ==
    LET n == Len(arrays)
        before(x, y) == IF descending THEN Less(y[9], x[9]) ELSE Less(x[9], y[9])
        rank(i) == Cardinality({j \in 1..n :
                                   \/ before(arrays[j], arrays[i])
                                   \/ ~before(arrays[i], arrays[j]) /\ j > i}) + 1
    IN  [r \in 1..n |-> arrays[CHOOSE i \in 1..n : rank(i) = r]]

\* Array.prototype.sort((a, b) => a[8] - b[8]), and with descending
\* (a, b) => b[8] - a[8]: an element goes behind the elements the comparator
\* puts before it and behind the equal ones that stood before it (the sort
\* is stable)
Sort(arrays, descending) ==
    LET n == Len(arrays)
        before(x, y) == IF descending THEN Less(y[9], x[9]) ELSE Less(x[9], y[9])
        rank(i) == Cardinality({j \in 1..n :
                                   \/ before(arrays[j], arrays[i])
                                   \/ ~before(arrays[i], arrays[j]) /\ j < i}) + 1
    IN  [r \in 1..n |-> arrays[CHOOSE i \in 1..n : rank(i) = r]]

\* the loop from offset i on: the same computation per record, and the
\* stockData array is pushed on lossesData or profitsData without sorting
RECURSIVE PushLoop(_, _, _, _)
PushLoop(acc, pos, rawData, i) ==
    IF i >= Len(rawData) THEN acc
    ELSE LET one == CalculateRecord(InitialAccumulators, pos, rawData, i)
         IN  PushLoop([acc EXCEPT
                         !.lossesData = IF one.lossesData = << >> THEN @
                                        ELSE Append(@, one.lossesData),
                         !.profitsData = IF one.profitsData = << >> THEN @
                                         ELSE Append(@, one.profitsData)],
                      pos, rawData, i + 7)

\* Array.prototype.flat() of an array of arrays
RECURSIVE Flat(_)
Flat(arrays) == IF arrays = << >> THEN << >> ELSE Head(arrays) \o Flat(Tail(arrays))

\* the data of the result: both arrays sorted once after the loop, losses
\* first, flattened
SortedData(pos, rawData) ==
    LET acc == PushLoop(InitialAccumulators, pos, rawData.items, 0)
    IN  Flat(Sort(acc.lossesData, FALSE) \o Sort(acc.profitsData, TRUE))

\* ---- the messages posted to the worker ----
\* an Update Record of symbol s at price last
UpdateRecord(s, last) == << s, last, 0 - 3, 0 - 4, last + 5, last - 6, 7 >>

\* the prices a symbol takes: 100.30 and 100.25, 2.10 and 1.90005, 1.00 and 0.50
LastsOf(s) ==
    CASE s = 0 -> {Price(100, 6000), Price(100, 5000)}
      [] s = 1 -> {Price(2, 2000), Price(1, 18001)}
      [] OTHER -> {Price(1, 0), Price(0, 10000)}

Records == UNION {{UpdateRecord(s, last) : last \in LastsOf(s)} : s \in Symbols}

RECURSIVE Flatten(_)
Flatten(rs) == IF rs = << >> THEN << >> ELSE Head(rs) \o Flatten(Tail(rs))

\* the batches of at most n records, and the absent batch
Batches(n) ==
    {AbsentBatch} \cup {Batch(Flatten(rs)) : rs \in UNION {[1..k -> Records] : k \in 0..n}}

TableOf(p0, p1, p2) == [s \in Symbols |-> IF s = 0 THEN p0 ELSE IF s = 1 THEN p1 ELSE p2]

\* position tables: 10 at 100.00, 1.5 at 2.00, none;
\*                  10 at 100.25, 4 at 0.00, 20 at 1.00;
\*                  10 at 101.00, 10 at 2.00, 20 at 0.75
PositionTables ==
    { TableOf(Position(Quantity(10, 0), Price(100, 0)),
              Position(Quantity(1, 1), Price(2, 0)),
              NoPosition),
      TableOf(Position(Quantity(10, 0), Price(100, 5000)),
              Position(Quantity(4, 0), Price(0, 0)),
              Position(Quantity(20, 0), Price(1, 0))),
      TableOf(Position(Quantity(10, 0), Price(101, 0)),
              Position(Quantity(10, 0), Price(2, 0)),
              Position(Quantity(20, 0), Price(0, 15000))) }

SetPositionsMessage(t) == [type |-> "set-positions", positions |-> t]

SetHeaderMessage == [type |-> "set-header"]

CalculateMessage(rawData, timestamp) ==
    [type |-> "calculate-pnl", rawData |-> rawData, timestamp |-> timestamp]

\* what the page posts to one worker: the Directory or not, a position table
\* or not, then one batch, or a batch, another one and the first one again
Scripts ==
    LET prefixes == {h \o p : h \in {<< >>, << SetHeaderMessage >>},
                              p \in {<< >>} \cup {<< SetPositionsMessage(t) >> :
                                                     t \in PositionTables}}
        runs == {<< CalculateMessage(b, 1) >> : b \in Batches(MaxBatch)}
                  \cup {<< CalculateMessage(b, 1), CalculateMessage(o, 2),
                           CalculateMessage(b, 3) >> :
                              b \in Batches(MaxReplayBatch), o \in Batches(MaxReplayBatch)}
    IN  {p \o r : p \in prefixes, r \in runs}

\* the worker after its constructor
PnLInit ==
    /\ headerData = FALSE
    /\ positions = [s \in Symbols |-> NoPosition]
    /\ calls = << >>

\* handleMessage, case "set-positions"
HandleSetPositions ==
    /\ UNCHANGED << serverVars, clientVars, apiVars >>
    /\ inbox # << >>
    /\ Head(inbox).type = "set-positions"
    /\ positions' = Head(inbox).positions
    /\ inbox' = Tail(inbox)
    /\ UNCHANGED << headerData, calls >>

\* handleMessage, case "set-header"
HandleSetHeader ==
    /\ UNCHANGED << serverVars, clientVars, apiVars >>
    /\ inbox # << >>
    /\ Head(inbox).type = "set-header"
    /\ headerData' = TRUE
    /\ inbox' = Tail(inbox)
    /\ UNCHANGED << positions, calls >>

\* handleMessage, case "calculate-pnl": the reply is posted
HandleCalculatePnL ==
    /\ UNCHANGED << serverVars, clientVars, apiVars >>
    /\ inbox # << >>
    /\ Head(inbox).type = "calculate-pnl"
    /\ calls' = Append(calls,
                       [rawData |-> Head(inbox).rawData,
                        headerData |-> headerData,
                        positions |-> positions,
                        result |-> CalculatePnL(headerData, positions, Head(inbox).rawData,
                                                Head(inbox).timestamp)])
    /\ inbox' = Tail(inbox)
    /\ UNCHANGED << headerData, positions >>

(***************************************************************************)
(* Part IV: the update generator (api/src/mock-data-generator.ts)          *)
(*                                                                         *)
(* Prices are whole cents.  A computed price is an exact number            *)
(* n / PriceUnit cents; a store into a Float32Array rounds it to the       *)
(* nearest value the array can hold, here the nearest cent.  Math.sin is   *)
(* tabulated over one period in tenths.                                    *)
(***************************************************************************)
\* Math.sin over one period, in tenths
SineTable == << 0, 7, 10, 7, 0, -7, -10, -7 >>

SineOf(x) == SineTable[(x % Len(SineTable)) + 1]

\* BASE_AMPLITUDE_PERCENTAGE (0.02), in percent
BASE_AMPLITUDE_PERCENTAGE == 2

\* the denominator of sineValue * amplitude: tenths of the sine, tenths of
\* the amplitude multiplier, hundredths of the percentage
PriceUnit == 10000

\* the floor of prices, 0.01
MinPrice == 1

\* the rows of the reference table: last, high, low in cents
Rows ==
    { [last |-> 1000, high |-> 1000, low |-> 1000, volume |-> 0],
      [last |-> 1000, high |-> 1100, low |-> 900, volume |-> 1500],
      [last |-> 10, high |-> 11, low |-> 9, volume |-> 7],
      [last |-> 0, high |-> 0, low |-> 0, volume |-> 0] }

\* the parameters getStockFrequency, getStockAmplitude, getStockPhaseOffset
\* and getStockTimeOffset derive from a symbol's hash: table steps per tick,
\* tenths of the base amplitude, table steps, ticks
Waves ==
    { [frequency |-> f, amplitude |-> a, phase |-> p, timeOffset |-> 1] :
          f \in {1, 2}, a \in {3, 18}, p \in {1, 5} }

\* the table and the parameters of a generator without stocks
NoStocks == [i \in {} |-> 0]

\* a store into a Float32Array: the representable value nearest to n / d
Float32(n, d) == (2 * n + d) \div (2 * d)

\* variant: the price is not floored
OscillatedPriceUnfloored(price, wave, t) ==
    LET sineValue == SineOf((t + wave.timeOffset) * wave.frequency + wave.phase)
        amplitude == wave.amplitude * BASE_AMPLITUDE_PERCENTAGE
    IN  price * (PriceUnit + sineValue * amplitude)

\* Math.max(0.01, price * (1 + sineValue * amplitude)) at time t, as a
\* numerator over PriceUnit
OscillatedPrice(price, wave, t) ==
    LET sineValue == SineOf((t + wave.timeOffset) * wave.frequency + wave.phase)
        amplitude == wave.amplitude * BASE_AMPLITUDE_PERCENTAGE
    IN  Max(MinPrice * PriceUnit, price * (PriceUnit + sineValue * amplitude))

\* originalPrice > 0 ? (totalPriceChange / originalPrice) * 100 : 0, stored
\* in tenths of a percent
ChangePercentage(newPrice, originalPrice) ==
    IF originalPrice > 0
    THEN Float32((newPrice - originalPrice * PriceUnit) * 1000,
                 originalPrice * PriceUnit)
    ELSE 0

\* the six fields _data holds for a stock
Fields(newPrice, originalPrice, high, low, volume) ==
    [last |-> Float32(newPrice, PriceUnit),
     change |-> Float32(newPrice - originalPrice * PriceUnit, PriceUnit),
     changePercentage |-> ChangePercentage(newPrice, originalPrice),
     high |-> high,
     low |-> low,
     volume |-> volume]

\* new FastMockUpdatesGenerator() over the reference table stocks with the
\* hash-derived parameters waves
Constructor(stocks, waves) ==
    LET initialPrice(i) == OscillatedPrice(stocks[i].last, waves[i], 0)
        high(i) == Float32(Max(stocks[i].high * PriceUnit, initialPrice(i)), PriceUnit)
        low(i) == Float32(Min(stocks[i].low * PriceUnit, initialPrice(i)), PriceUnit)
    IN  /\ dataset = stocks
        /\ stockWaves = waves
        /\ data = [i \in DOMAIN stocks |->
                      Fields(initialPrice(i), stocks[i].last, high(i), low(i),
                             stocks[i].volume)]
        /\ sessionHighs = [i \in DOMAIN stocks |-> high(i)]
        /\ sessionLows = [i \in DOMAIN stocks |-> low(i)]
        /\ originalPrices = [i \in DOMAIN stocks |-> stocks[i].last]
        /\ updateQueue = << >>
        /\ timeStep = 0
        /\ generatedPrices = [i \in DOMAIN stocks |->
                                 << Float32(initialPrice(i), PriceUnit) >>]
        /\ emitted = << >>

\* the queue batchUpdate builds: _updateQueue[_queueSize++] = i for every i
QueueAll(fields) ==
    LET RECURSIVE From(_)
        From(i) == IF i \notin DOMAIN fields THEN << >>
                   ELSE << i >> \o From(i + 1)
    IN  From(0)

\* batchUpdate()
BatchUpdate ==
    LET newPrice(i) == OscillatedPrice(originalPrices[i], stockWaves[i], timeStep + 1)
        high(i) == IF newPrice(i) > sessionHighs[i] * PriceUnit
                   THEN Float32(newPrice(i), PriceUnit) ELSE sessionHighs[i]
        low(i) == IF newPrice(i) < sessionLows[i] * PriceUnit
                  THEN Float32(newPrice(i), PriceUnit) ELSE sessionLows[i]
    IN  /\ timeStep' = timeStep + 1
        /\ sessionHighs' = [i \in DOMAIN data |-> high(i)]
        /\ sessionLows' = [i \in DOMAIN data |-> low(i)]
        /\ data' = [i \in DOMAIN data |->
                       Fields(newPrice(i), originalPrices[i], high(i), low(i),
                              data[i].volume)]
        /\ updateQueue' = QueueAll(data')
        /\ generatedPrices' = [i \in DOMAIN data |->
                                  Append(generatedPrices[i],
                                         Float32(newPrice(i), PriceUnit))]
        /\ UNCHANGED << dataset, stockWaves, originalPrices >>

\* getUpdatedStocks(): seven values per queued stock
GetUpdatedStocks(queue, fields) ==
    [k \in 1..Len(queue) |->
        LET stockIndex == queue[k]
        IN  << stockIndex, fields[stockIndex].last, fields[stockIndex].change,
               fields[stockIndex].changePercentage, fields[stockIndex].high,
               fields[stockIndex].low, fields[stockIndex].volume >>]

\* one step of the generator function of index.ts: batchUpdate(), then
\* getUpdatedStocks() is encoded and yielded
GenerateUpdate ==
    /\ timeStep < MaxSteps
    /\ BatchUpdate
    /\ emitted' = Append(emitted, GetUpdatedStocks(updateQueue', data'))
    /\ UNCHANGED << serverVars, clientVars, pnlVars, obsVars >>

(***************************************************************************)
(* Part V: GenericObservable (api/src/generic-observable.ts)               *)
(*                                                                         *)
(* The generator is created once by the constructor and yields the values  *)
(* 1, 2, ... ; every subscribe() creates an interval timer of its own.     *)
(***************************************************************************)
\* generatorLength of a generator that never completes
Infinite == -1

Subscriptions == 1 .. MaxSubs

\* variant: next() yields the same value again
GeneratorNextRepeating(length, count) ==
    IF length # Infinite /\ count >= length
    THEN [done |-> TRUE, value |-> 0]
    ELSE [done |-> FALSE, value |-> 1]

\* this._generator.next() of a generator of length values that has yielded
\* count of them
GeneratorNext(length, count) ==
    IF length # Infinite /\ count >= length
    THEN [done |-> TRUE, value |-> 0]
    ELSE [done |-> FALSE, value |-> count + 1]

\* variant: the timer keeps running
ClearIntervalIgnored(on, intervalId) == on

\* clearInterval(intervalId)
ClearInterval(on, intervalId) == [on EXCEPT ![intervalId] = FALSE]

\* new GenericObservable(generatorFn) for a generator function of length values
ObservableConstructor(length) ==
    /\ generatorLength = length
    /\ yielded = 0
    /\ intervalIds = 0
    /\ intervalOn = [s \in Subscriptions |-> FALSE]
    /\ received = [s \in Subscriptions |-> << >>]
    /\ unsubscribed = [s \in Subscriptions |-> "no"]
    /\ completed = [s \in Subscriptions |-> FALSE]

\* subscribe(callback): setInterval
Subscribe ==
    /\ intervalIds < MaxSubs
    /\ intervalIds' = intervalIds + 1
    /\ intervalOn' = [intervalOn EXCEPT ![intervalIds + 1] = TRUE]
    /\ UNCHANGED << generatorLength, yielded, received, unsubscribed, completed >>
    /\ UNCHANGED << serverVars, clientVars, pnlVars, genVars >>

\* the interval callback of subscription s; unsubscribes tells whether the
\* subscriber's callback calls the function subscribe returned
IntervalCallback(s, unsubscribes) ==
    LET next == GeneratorNext(generatorLength, yielded)
    IN  /\ intervalOn[s]
        /\ next.done \/ yielded < MaxPulls
        /\ IF next.done
           THEN /\ intervalOn' = ClearInterval(intervalOn, s)
                /\ completed' = [completed EXCEPT ![s] = TRUE]
                /\ UNCHANGED << yielded, received, unsubscribed >>
           ELSE /\ yielded' = yielded + 1
                /\ received' = [received EXCEPT ![s] = Append(@, next.value)]
                /\ intervalOn' = IF unsubscribes THEN ClearInterval(intervalOn, s)
                                 ELSE intervalOn
                /\ unsubscribed' = IF unsubscribes
                                   THEN [unsubscribed EXCEPT ![s] = "callback"]
                                   ELSE unsubscribed
                /\ UNCHANGED completed
        /\ UNCHANGED << generatorLength, intervalIds >>
        /\ UNCHANGED << serverVars, clientVars, pnlVars, genVars >>

\* the function subscribe returned for subscription s, called between two
\* timer callbacks
Unsubscribe(s) ==
    /\ s <= intervalIds
    /\ intervalOn' = ClearInterval(intervalOn, s)
    /\ unsubscribed' = [unsubscribed EXCEPT ![s] = "outside"]
    /\ UNCHANGED << generatorLength, yielded, intervalIds, received, completed >>
    /\ UNCHANGED << serverVars, clientVars, pnlVars, genVars >>

(***************************************************************************)
(* Specifications                                                          *)
(***************************************************************************)
ApiInit == Constructor(NoStocks, NoStocks) /\ ObservableConstructor(0)

Init == ServerInit /\ ClientInit /\ PnLInit /\ inbox = << >> /\ ApiInit

Next ==
    \/ \E c \in Conns : Connection(c)
    \/ Tick
    \/ \E c \in Conns : ErrorEvent(c)
    \/ \E c \in Conns : BeginClose(c)
    \/ \E c \in Conns : CloseEvent(c)
    \/ Heartbeat
    \/ \E c \in Conns : Pong(c)
    \/ Close

\* the broadcast server
Spec == Init /\ [][Next]_vars

ClientNext ==
    \/ ProtobufReady
    \/ Connect
    \/ Disconnect
    \/ WsMessage
    \/ DrainSlice
    \/ \E newConfig \in Configs : UpdateBackpressureConfig(newConfig)

\* the client network worker
SpecClient == Init /\ [][ClientNext]_vars

\* the times that pass between two events of the worker, in milliseconds
Delays == {2500, 5001}

\* time passes
Advance(d) ==
    /\ UNCHANGED << serverVars, pnlVars, apiVars, undecodable, processorVars, portVars >>
    /\ now < Epoch + MaxTime
    /\ now' = now + d
    /\ UNCHANGED << isProtobufReady, pendingMessages, runtimeBuffer, config,
                    isFirstMessage, websocket, sockets, arrived, processed, added,
                    handedOut, flushed, hasDisconnected, warnings >>

WarnNext ==
    \/ ProtobufReady
    \/ Connect
    \/ Disconnect
    \/ WsMessage
    \/ DrainSlice
    \/ \E d \in Delays : Advance(d)

\* the client network worker under its default configuration, with the
\* clock that checkWarningThreshold reads
SpecWarn == Init /\ [][WarnNext]_vars

PortsNext ==
    \/ \E p \in Ports : AddConnection(p)
    \/ ProtobufReady
    \/ PortConnect
    \/ PortDisconnect
    \/ \E k \in 1..MaxSockets : WsOpen(k)
    \/ \E k \in 1..MaxSockets : WsReceive(k)
    \/ \E k \in 1..MaxSockets : WsDispatch(k)
    \/ \E k \in 1..MaxSockets : WsClose(k)
    \/ PortDrain

\* the client network worker with its sockets and the ports of its consumers
SpecPorts == Init /\ [][PortsNext]_vars

SocketsNext ==
    \/ ProtobufReady
    \/ PortConnect
    \/ PortDisconnect
    \/ \E k \in 1..MaxSockets : WsOpen(k)
    \/ \E k \in 1..MaxSockets : WsReceive(k)
    \/ \E k \in 1..MaxSockets : WsDispatch(k)
    \/ \E k \in 1..MaxSockets : WsClose(k)
    \/ PortDrain

InitSockets ==
    /\ ServerInit /\ PnLInit /\ inbox = << >> /\ ApiInit
    /\ WorkerConstructor
    /\ FirstPort
    /\ undecodable = {}

\* the client network worker with its sockets, serving one consumer
SpecSockets == InitSockets /\ [][SocketsNext]_vars

FairNext ==
    \/ ProtobufReady
    \/ Connect
    \/ Disconnect
    \/ WsMessage
    \/ DrainSlice

\* the client network worker under its default configuration with its drain
\* loop running: a requested call of processMessages is made
\* (requestIdleCallback with a timeout, or setTimeout), so a slice is not put
\* off for ever
SpecClientFair == Init /\ [][FairNext]_vars /\ WF_vars(DrainSlice)

InitPnL == ServerInit /\ ClientInit /\ PnLInit /\ inbox \in Scripts /\ ApiInit

PnLNext ==
    \/ HandleSetPositions
    \/ HandleSetHeader
    \/ HandleCalculatePnL

\* the P&L calculator worker
SpecPnL == InitPnL /\ [][PnLNext]_vars

InitDecode ==
    /\ ServerInit /\ PnLInit /\ inbox = << >> /\ ApiInit
    /\ WorkerConstructor
    /\ NoPorts
    /\ undecodable \in SUBSET (1 .. MaxMsgs)

DecodeNext ==
    \/ ProtobufReady
    \/ Connect
    \/ WsMessage
    \/ DrainSlice

\* the client network worker on a socket that delivers undecodable payloads
SpecDecode == InitDecode /\ [][DecodeNext]_vars

InitGen ==
    /\ ServerInit /\ ClientInit /\ PnLInit /\ inbox = << >>
    /\ \E stocks \in [0 .. DataLength - 1 -> Rows],
          waves \in [0 .. DataLength - 1 -> Waves] : Constructor(stocks, waves)
    /\ ObservableConstructor(0)

GenNext == GenerateUpdate

\* the update generator
SpecGen == InitGen /\ [][GenNext]_vars

InitObs ==
    /\ ServerInit /\ ClientInit /\ PnLInit /\ inbox = << >>
    /\ Constructor(NoStocks, NoStocks)
    /\ \E length \in {Infinite} \cup (0 .. MaxValues) : ObservableConstructor(length)

ObsNext ==
    \/ Subscribe
    \/ \E s \in Subscriptions, unsubscribes \in BOOLEAN : IntervalCallback(s, unsubscribes)
    \/ \E s \in Subscriptions : Unsubscribe(s)

\* GenericObservable
SpecObs == InitObs /\ [][ObsNext]_vars

(***************************************************************************)
(* Claims about the broadcast server (checked under Spec)                  *)
(***************************************************************************)
Last(q) == q[Len(q)]

\* C1: on every connection the Directory is the first message passed to
\* send(), it is sent in the step that accepts the connection, and it is
\* never sent again: no Update precedes it, whatever the interleaving of
\* connection events and ticks.
C1_HeaderFirstOnce ==
    \A c \in Conns :
        IF readyState[c] = "NEW"
          THEN sent[c] = << >>
          ELSE /\ Len(sent[c]) >= 1
               /\ sent[c][1] = Header
               /\ \A i \in 2..Len(sent[c]) : sent[c][i] # Header

\* C1 witness: a connection that joined while the subscription was already
\* broadcasting (its first Update is later than another connection's first
\* Update) and has received its Directory followed by an Update.
C1_Witness ==
    \E c, d \in Conns :
        /\ c # d
        /\ Len(sent[c]) >= 2
        /\ Len(sent[d]) >= 2
        /\ sent[d][1] = Header
        /\ sent[d][2] > sent[c][2]

\* C2 (as stated): the subscription timer exists exactly when at least one
\* accepted connection has not closed yet.
C2_ActiveIffConnected ==
    /\ isStreamActive = (clients # {})
    /\ streamTimers = IF clients # {} THEN 1 ELSE 0

\* C2 (amended): until close() shuts the server down, the subscription is
\* active exactly when at least one accepted connection has not closed yet.
C2_ActiveIffConnectedUntilClose ==
    ~serverClosed =>
        /\ isStreamActive = (clients # {})
        /\ streamTimers = IF clients # {} THEN 1 ELSE 0

\* C2 witness: the subscription was torn down by the last close and has been
\* activated again by a later connection.
C2_Witness ==
    /\ activations >= 2
    /\ clients # {}
    /\ isStreamActive
    /\ ~serverClosed
    /\ \E c \in Conns : readyState[c] = "CLOSED"

\* C8: at every heartbeat cycle, a connection that was pinged in an earlier
\* cycle and has not answered is terminated (it leaves OPEN in that cycle).
C8_UnansweredPingTerminated ==
    [][Heartbeat =>
         \A c \in Conns :
            (c \in clients /\ readyState[c] = "OPEN" /\ unanswered[c] > 0)
                => readyState'[c] # "OPEN"]_vars

\* C8 witness: a connection terminated by the heartbeat with its ping
\* unanswered.
C8_Witness ==
    \E c \in Conns : cause[c] = "terminate" /\ unanswered[c] > 0

\* C9: in a tick, the Update just pulled from the generator is passed to
\* send() of every connection that is OPEN and of no other connection, and
\* it is the same Update for all of them.
C9_BroadcastToOpenOnly ==
    [][Tick =>
         \A c \in Conns :
            sent'[c] = IF c \in clients /\ readyState[c] = "OPEN"
                         THEN Append(sent[c], generated')
                         ELSE sent[c]]_vars

\* C9 witness: after a tick, an OPEN connection holds the latest Update while
\* a connection that was CLOSING at that tick does not.
C9_Witness ==
    \E c, d \in Conns :
        /\ generated > 0
        /\ readyState[c] = "OPEN"
        /\ Last(sent[c]) = generated
        /\ d \in clients
        /\ readyState[d] = "CLOSING"
        /\ Last(sent[d]) < generated

\* C10: a tick in which a write fails still sends the Update to every OPEN
\* connection and leaves the set of connections and the subscription alone;
\* the error and the close of the failed connection change no other
\* connection, and the subscription survives while another connection remains.
C10_WriteFailureIsolated ==
    [][/\ (Tick /\ failedWrite' # failedWrite) =>
             /\ \A d \in Conns :
                   (d \in clients /\ readyState[d] = "OPEN")
                       => sent'[d] = Append(sent[d], generated')
             /\ clients' = clients
             /\ readyState' = readyState
             /\ streamTimers' = streamTimers
             /\ isStreamActive' = isStreamActive
       /\ \A c \in Conns :
             ErrorEvent(c) =>
                 /\ clients' = clients
                 /\ \A d \in Conns \ {c} : readyState'[d] = readyState[d]
                 /\ streamTimers' = streamTimers
                 /\ isStreamActive' = isStreamActive
       /\ \A c \in Conns :
             (CloseEvent(c) /\ cause[c] = "error") =>
                 /\ clients' = clients \ {c}
                 /\ \A d \in Conns \ {c} : readyState'[d] = readyState[d]
                 /\ (clients' # {} =>
                        /\ streamTimers' = streamTimers
                        /\ isStreamActive' = isStreamActive)]_vars

\* C10 witness: a connection removed after a write failure, and another
\* connection, still OPEN, that received the Update of the failing tick and a
\* later one.
C10_Witness ==
    \E c, d \in Conns :
        /\ cause[c] = "error"
        /\ readyState[c] = "CLOSED"
        /\ readyState[d] = "OPEN"
        /\ Len(sent[c]) >= 2
        /\ \E i \in 1..Len(sent[d]) : sent[d][i] = Last(sent[c])
        /\ Last(sent[d]) > Last(sent[c])

\* C28: at no time does more than one tick subscription (a timer pulling
\* from the generator) exist on the server, however many connections are
\* open and in whatever order they open, close or are terminated.
C28_AtMostOneSubscription == streamTimers <= 1

\* two connections are open on one subscription, or a subscription was
\* made again after an earlier one was cancelled
C28_Witness ==
    /\ streamTimers = 1
    /\ Cardinality(clients) = 2 \/ activations = 2

\* C30: the heartbeat timer runs exactly when the shared subscription is
\* active: both are on or both are off in every reachable state, and a
\* step starts or stops the one exactly when it starts or stops the other.
C30_HeartbeatIffSubscription ==
    /\ [](/\ hbTimers = streamTimers
          /\ hbTimers > 0 <=> isStreamActive
          /\ heartbeatInterval <=> cancelStreamSubscription)
    /\ [][hbTimers' - hbTimers = streamTimers' - streamTimers]_vars

\* both timers have been started and both are off again: after the last
\* connection closed, or after close() with a connection still open
C30_Witness ==
    /\ activations >= 1
    /\ hbTimers = 0 /\ streamTimers = 0
    /\ clients = {} \/ serverClosed

\* C34: a heartbeat cycle leaves alone every OPEN connection that has
\* answered all the pings it was sent (it stays OPEN and is not marked as
\* terminated), whatever the other connections do; only a connection with an
\* unanswered ping is ever terminated by the heartbeat.
C34_ResponsiveNeverTerminated ==
    [][/\ Heartbeat =>
            \A c \in Conns :
               (c \in clients /\ readyState[c] = "OPEN" /\ unanswered[c] = 0)
                   => readyState'[c] = "OPEN" /\ cause'[c] = cause[c]
       /\ \A c \in Conns :
            (cause'[c] = "terminate" /\ cause[c] # "terminate")
                => unanswered[c] > 0]_vars

\* C34 witness: a heartbeat cycle has terminated one connection, which is
\* still CLOSING, and a connection without unanswered ping is OPEN, its only
\* outstanding ping being the one of the latest cycle.
C34_Witness ==
    \E c, d \in Conns :
        /\ c # d
        /\ readyState[d] = "CLOSING"
        /\ cause[d] = "terminate"
        /\ c \in clients
        /\ readyState[c] = "OPEN"
        /\ ~isAlive[c]
        /\ unanswered[c] = 1

\* C32: the server keeps no per-client backlog: what a step sends to a
\* connection is the Directory or the one Update generated in that very
\* step, and only when the connection is OPEN; so a connection receives the
\* Updates generated while it is open in generation order, each at most
\* once, and never an Update generated earlier.
C32_NoBacklog ==
    /\ [](\A c \in Conns :
             \A i, j \in 1..Len(sent[c]) : i < j => sent[c][i] < sent[c][j])
    /\ [][\A c \in Conns :
              sent'[c] # sent[c] =>
                  /\ Len(sent'[c]) = Len(sent[c]) + 1
                  /\ SubSeq(sent'[c], 1, Len(sent[c])) = sent[c]
                  /\ \/ sent'[c][Len(sent'[c])] = Header
                     \/ /\ sent'[c][Len(sent'[c])] = generated'
                        /\ generated' = generated + 1
                        /\ readyState[c] = "OPEN"]_vars

\* a connection that opened after the first Update was generated has
\* received the second Update and not the first
C32_Witness ==
    \E c \in Conns : readyState[c] = "OPEN" /\ sent[c] = << Header, 2 >>

(***************************************************************************)
(* Claims about the client network worker (checked under SpecClient)       *)
(***************************************************************************)
\* the last n elements of q (all of q when it is shorter)
LastN(q, n) == SubSeq(q, Len(q) - Min(n, Len(q)) + 1, Len(q))

\* C3: of the messages of a connection that are processed, the one decoded
\* as Directory is the first message received on the connection (n = 1) and
\* every other one is decoded as Update.
C3_DirectoryIsFirstReceived ==
    \A i \in 1..Len(processed) :
        (processed[i].kind = "header") <=> (processed[i].msg.n = 1)

\* C4: the Tier-2 buffer never holds more than maxBufferSize messages.
C4_BufferBounded ==
    Len(runtimeBuffer.buffer) <= config.maxBufferSize

\* C5: under drop-oldest, (a) while nothing has been drained the buffer is
\* exactly the last maxBufferSize messages passed to add(), in their order,
\* and (b) an add() on a full buffer removes the head and appends the new
\* message.
C5_DropOldestKeepsLast ==
    /\ []((config.dropStrategy = "drop-oldest" /\ handedOut = 0)
            => runtimeBuffer.buffer = LastN(added, config.maxBufferSize))
    /\ [][(/\ Len(added') = Len(added) + 1
           /\ SubSeq(added', 1, Len(added)) = added
           /\ config' = config
           /\ config.dropStrategy = "drop-oldest"
           /\ Len(runtimeBuffer.buffer) = config.maxBufferSize)
            => runtimeBuffer'.buffer =
                  Append(Tail(runtimeBuffer.buffer), added'[Len(added')])]_vars

\* C5 witness: more messages than the capacity (of at least 2) were added
\* under drop-oldest with no drain, and some were evicted.
C5_Witness ==
    /\ config.dropStrategy = "drop-oldest"
    /\ config.maxBufferSize >= 2
    /\ handedOut = 0
    /\ Len(added) > config.maxBufferSize
    /\ runtimeBuffer.droppedCount > 0
    /\ Len(runtimeBuffer.buffer) = config.maxBufferSize

\* C6: under drop-middle an add() on a full buffer leaves the first K
\* buffered messages, then the last K, then the new message when
\* 2K < maxBufferSize (for every K >= 0), and behaves as drop-oldest when
\* 2K >= maxBufferSize.
C6_DropMiddleKeepsEdges ==
    [][(/\ Len(added') = Len(added) + 1
        /\ SubSeq(added', 1, Len(added)) = added
        /\ config' = config
        /\ config.dropStrategy = "drop-middle"
        /\ Len(runtimeBuffer.buffer) = config.maxBufferSize)
         => runtimeBuffer'.buffer =
               IF 2 * config.keepAtEdges < config.maxBufferSize
                 THEN SubSeq(runtimeBuffer.buffer, 1, config.keepAtEdges)
                      \o SubSeq(runtimeBuffer.buffer,
                                Len(runtimeBuffer.buffer) - config.keepAtEdges + 1,
                                Len(runtimeBuffer.buffer))
                      \o << added'[Len(added')] >>
                 ELSE Append(Tail(runtimeBuffer.buffer), added'[Len(added')])]_vars

\* C7: under drop-newest an add() on a full buffer leaves the buffered
\* messages and their order unchanged; the incoming message is counted as
\* received and as dropped.
C7_DropNewestKeepsBuffer ==
    [][(/\ Len(added') = Len(added) + 1
        /\ SubSeq(added', 1, Len(added)) = added
        /\ config' = config
        /\ config.dropStrategy = "drop-newest"
        /\ Len(runtimeBuffer.buffer) = config.maxBufferSize)
         => /\ runtimeBuffer'.buffer = runtimeBuffer.buffer
            /\ runtimeBuffer'.droppedCount = runtimeBuffer.droppedCount + 1]_vars

\* C7 witness: a message was discarded by drop-newest on a full buffer: the
\* buffer still holds the first maxBufferSize messages that were added.
C7_Witness ==
    /\ config.dropStrategy = "drop-newest"
    /\ runtimeBuffer.droppedCount > 0
    /\ handedOut = 0
    /\ Len(added) > config.maxBufferSize
    /\ runtimeBuffer.buffer = SubSeq(added, 1, config.maxBufferSize)

\* C11 (as stated): after disconnect() both buffer tiers are empty and the
\* decode state machine is back in its initial state (isFirstMessage is
\* true), so that the next message processed is decoded as a Directory.
C11_DisconnectResetsDecoder ==
    /\ [][Disconnect => /\ pendingMessages' = << >>
                        /\ runtimeBuffer'.buffer = << >>
                        /\ isFirstMessage' = TRUE]_vars
    /\ [](hasDisconnected /\ processed # << >> => processed[1].kind = "header")

\* C11 (amended): after disconnect() both buffer tiers are empty, and the
\* first message the worker processes after a disconnect() is decoded as a
\* Directory (the decode flag itself is put back by the connect() that
\* precedes that message, not by disconnect()).
C11_DisconnectEmptiesNextIsDirectory ==
    /\ [][Disconnect => /\ pendingMessages' = << >>
                        /\ runtimeBuffer'.buffer = << >>]_vars
    /\ [](hasDisconnected /\ processed # << >> => processed[1].kind = "header")

\* the first message processed after a disconnect() came from the second
\* socket
C11_Witness ==
    /\ hasDisconnected
    /\ processed # << >>
    /\ processed[1].msg.sock = 2
    /\ isFirstMessage = FALSE

\* C12: messages that arrive before the codec schema is ready are held in the
\* Tier-1 queue without loss (the queue is exactly the arrivals of the
\* socket, in order); when the schema becomes ready the whole queue is handed
\* to the Tier-2 buffer in arrival order and the queue stays empty afterwards,
\* so every later arrival is handed on after them.
C12_PendingFlushedInOrder ==
    /\ [](~isProtobufReady /\ websocket # 0
            => pendingMessages = [i \in 1..arrived |-> Message(websocket, i)])
    /\ [](isProtobufReady => pendingMessages = << >>)
    /\ [][ProtobufReady => added' = pendingMessages]_vars
    /\ [](\A i, j \in 1..Len(added) : i < j => added[i].n < added[j].n)

\* two messages waited for the schema and a third one arrived after it was
\* ready
C12_Witness ==
    /\ isProtobufReady
    /\ websocket # 0
    /\ flushed >= 2
    /\ Len(added) > flushed

\* C13: the messages the drain loop processes form a subsequence of the
\* arrival sequence: under every drop policy, of any two processed messages
\* of a socket the one that arrived first is processed first.
C13_ProcessedInArrivalOrder ==
    \A i, j \in 1..Len(processed) :
        i < j => /\ processed[i].msg.sock = processed[j].msg.sock
                 /\ processed[i].msg.n < processed[j].msg.n

\* three messages were processed and a message that arrived between two of
\* them was dropped
C13_Witness ==
    /\ Len(processed) >= 3
    /\ \E i \in 1..(Len(processed) - 1) :
           processed[i + 1].msg.n > processed[i].msg.n + 1

\* C14 (as stated): update-config loses no buffered content: the Tier-2
\* buffer holds the same messages in the same order after the update as
\* before it.
C14_UpdateConfigKeepsContent ==
    [][UpdateBackpressureConfig(config')
         => runtimeBuffer'.buffer = runtimeBuffer.buffer]_vars

\* C14 (amended): update-config loses no buffered content when the buffer
\* holds no more messages than the new capacity: the Tier-2 buffer then holds
\* the same messages in the same order after the update as before it.
C14_UpdateConfigKeepsContentThatFits ==
    [][UpdateBackpressureConfig(config')
         /\ Len(runtimeBuffer.buffer) <= config'.maxBufferSize
         => runtimeBuffer'.buffer = runtimeBuffer.buffer]_vars

\* two buffered messages, the first of them not the first arrival, sit in a
\* buffer whose counters were reset by an update that changed the settings
C14_Witness ==
    /\ Len(runtimeBuffer.buffer) >= 2
    /\ runtimeBuffer.buffer[1].n > 1
    /\ added = runtimeBuffer.buffer
    /\ handedOut = 0
    /\ runtimeBuffer.droppedCount = 0
    /\ runtimeBuffer.totalReceived = Len(runtimeBuffer.buffer)
    /\ config # DefaultConfig

\* the message is in the Tier-2 buffer
InBuffer(m) == \E i \in 1..Len(runtimeBuffer.buffer) : runtimeBuffer.buffer[i] = m

\* processRuntimeMessage has been applied to the message
Processed(m) == \E i \in 1..Len(processed) : processed[i].msg = m

\* C31: the drain loop never stops: at any time exactly one call of
\* processMessages is requested and isProcessing is clear, a slice leaves
\* exactly one call requested, what a slice takes from the buffer it
\* processes, and every message in the Tier-2 buffer eventually is processed
\* or has left the buffer otherwise (dropped or cleared).
C31_DrainLoopKeepsRunning ==
    /\ [](scheduledSlices = 1 /\ ~isProcessing)
    /\ [][DrainSlice =>
             /\ scheduledSlices' = 1
             /\ \A k \in 1..MaxSockets, n \in 1..MaxMsgs :
                    (InBuffer(Message(k, n)) /\ ~InBuffer(Message(k, n))')
                        => Processed(Message(k, n))']_vars
    /\ \A k \in 1..MaxSockets, n \in 1..MaxMsgs :
          InBuffer(Message(k, n))
              ~> (Processed(Message(k, n)) \/ ~InBuffer(Message(k, n)))

\* C31 witness: slices have processed two messages and ended with a message
\* still waiting in the buffer, nothing was dropped, and one call of
\* processMessages is requested
C31_Witness ==
    /\ scheduledSlices = 1
    /\ handedOut >= 2
    /\ Len(processed) >= 2
    /\ runtimeBuffer.droppedCount = 0
    /\ \E n \in 1..MaxMsgs : /\ Processed(Message(websocket, n))
                              /\ InBuffer(Message(websocket, n + 1))

(***************************************************************************)
(* Claims about the warnings of the Tier-2 buffer (checked under SpecWarn) *)
(***************************************************************************)
\* C33: when add() leaves the Tier-2 buffer at 80% of its capacity or more,
\* a warning is raised in that call unless one was raised within the 5 s
\* before it, and two warnings are never less than 5 s apart.
C33_WarningAtEightyPercent ==
    /\ [][(WsMessage /\ isProtobufReady
              /\ 100 * Len(runtimeBuffer'.buffer) >= WarningThreshold * config.maxBufferSize)
            => \/ warnings' # warnings /\ warnings'[Len(warnings')] = now
               \/ \E i \in 1..Len(warnings) : now - warnings[i] <= WarningInterval]_vars
    /\ [](\A i, j \in 1..Len(warnings) :
              i < j => warnings[j] - warnings[i] >= WarningInterval)

(***************************************************************************)
(* Claims about the sockets and the ports of the client network worker     *)
(* (checked under SpecSockets and SpecPorts)                               *)
(***************************************************************************)
\* the statuses posted to a port, in order
Statuses(log) == SelectSeq(log, LAMBDA t : t \in {"connected", "disconnected"})

\* C35: on every port, an update message is preceded by a header message.
C35_HeaderBeforeUpdateOnEveryPort ==
    \A p \in Ports :
        \A i \in 1..Len(portLog[p]) :
            portLog[p][i] = "update" => \E j \in 1..(i - 1) : portLog[p][j] = "header"

\* C36: every message held in the Tier-1 queue or the Tier-2 buffer, and
\* every message decoded and broadcast since the last connect() or
\* disconnect(), is a message of the current socket; after disconnect()
\* there is none.
C36_NoMessageOfClosedSocket ==
    /\ \A i \in 1..Len(pendingMessages) : pendingMessages[i].sock = websocket
    /\ \A i \in 1..Len(runtimeBuffer.buffer) : runtimeBuffer.buffer[i].sock = websocket
    /\ \A i \in 1..Len(processed) : processed[i].msg.sock = websocket

\* C36 witness: the task of a message of a socket that connect() replaced
\* ran after close() and fired no event, and a message of the new socket has
\* been decoded
C36_Witness ==
    \E k \in 1..MaxSockets :
        /\ websocket # 0
        /\ k # websocket
        /\ suppressed[k] > 0
        /\ processed # << >>
        /\ processed[Len(processed)].msg.sock = websocket

\* C37: while the current socket is OPEN, the latest status posted to a
\* port is not disconnected.
C37_StatusTracksCurrentSocket ==
    \A p \in Ports :
        (websocket # 0 /\ wsState[websocket] = "OPEN" /\ Statuses(portLog[p]) # << >>)
            => Statuses(portLog[p])[Len(Statuses(portLog[p]))] # "disconnected"

(***************************************************************************)
(* Claims about the P&L calculator worker (checked under SpecPnL)          *)
(***************************************************************************)
\* the replies of calculatePnL that carry a computed result
Computed == {c \in 1..Len(calls) : ~calls[c].result.passed}

\* number of enriched records of a result, its k-th record, and the
\* unrealizedPL and unrealizedPLPercentage of that record
RecordCount(r) == Len(r.data) \div 9

EnrichedRecord(r, k) == SubSeq(r.data, 9 * (k - 1) + 1, 9 * k)

PLOf(r, k) == r.data[9 * k - 1]

PercentOf(r, k) == r.data[9 * k]

\* C15: the ranked output of calculate is the records with
\* unrealizedPLPercent < 0 in ascending order of unrealizedPLPercent,
\* followed by the records with unrealizedPLPercent >= 0 in descending order.
C15_RankedLossesThenProfits ==
    \A c \in Computed :
        LET r == calls[c].result
            n == RecordCount(r)
        IN  \E m \in 0..n :
                /\ \A k \in 1..m : Less(PercentOf(r, k), Zero)
                /\ \A k \in (m + 1)..n : ~Less(PercentOf(r, k), Zero)
                /\ \A k \in 1..(m - 1) : ~Less(PercentOf(r, k + 1), PercentOf(r, k))
                /\ \A k \in (m + 1)..(n - 1) : ~Less(PercentOf(r, k), PercentOf(r, k + 1))

\* a result with two different losses in front and a profit at the end,
\* whose first record is not the first record of the batch
C15_Witness ==
    \E c \in Computed :
        LET r == calls[c].result
            n == RecordCount(r)
        IN  /\ n >= 3
            /\ Less(PercentOf(r, 1), PercentOf(r, 2))
            /\ Less(PercentOf(r, 2), Zero)
            /\ ~Less(PercentOf(r, n), Zero)
            /\ SubSeq(r.data, 1, 7) # SubSeq(calls[c].rawData.items, 1, 7)

\* C16: for every held symbol, unrealizedPL equals
\* (round(last*S) - round(entryPrice*S)) * round(quantity*S) / S^2, with its
\* fractional part (both sides are multiplied by S^2; quantity*S is a whole
\* number for a quantity counted in halves).
C16_UnrealizedPLExact ==
    \A c \in Computed :
        \A k \in 1..RecordCount(calls[c].result) :
            LET record == EnrichedRecord(calls[c].result, k)
                position == calls[c].positions[record[1]]
                quantity == position[1]
                entryPrice == position[2]
                last == record[2]
            IN  record[8] * Scale * Scale
                  = (ScaledPrice(last) - ScaledPrice(entryPrice))
                       * ((quantity * Scale) \div 2)

\* f[1] + ... + f[n]
RECURSIVE SumTo(_, _)
SumTo(f, n) == IF n = 0 THEN 0 ELSE f[n] + SumTo(f, n - 1)

\* C17: the aggregates of a batch are totalPL = sum of unrealizedPL and
\* investedAmount = sum of entryPrice * quantity over the held records of the
\* batch, totalPLPercent = totalPL / investedAmount * 100 when
\* investedAmount > 0 and 0 otherwise, and winCount / lossCount = number of
\* records with unrealizedPL > 0 / < 0 (entryPrice * quantity is counted in
\* units of 1 / (4 * Scale)).
C17_AggregatesAreSums ==
    \A c \in Computed :
        LET r == calls[c].result
            n == RecordCount(r)
            totalPL == SumTo([k \in 1..n |-> PLOf(r, k)], n)
            invested == SumTo([k \in 1..n |->
                                 LET position == calls[c].positions[EnrichedRecord(r, k)[1]]
                                 IN  position[2] * position[1]], n)
        IN  /\ r.aggregates.pnlAmount = totalPL
            /\ r.aggregates.pnlPercentage
                  = IF invested > 0 THEN Fraction(totalPL * 100 * 4 * Scale, invested)
                                    ELSE Zero
            /\ r.aggregates.pCount = Cardinality({k \in 1..n : PLOf(r, k) > 0})
            /\ r.aggregates.lCount = Cardinality({k \in 1..n : PLOf(r, k) < 0})

\* C18 (as stated): calculate with no Directory set, or with an absent or
\* empty update batch, returns its input unchanged and computes nothing.
C18_PassThroughWhenAbsentOrEmpty ==
    \A c \in 1..Len(calls) :
        (~calls[c].headerData \/ calls[c].rawData.absent \/ calls[c].rawData.items = << >>)
          => /\ calls[c].result.passed
             /\ calls[c].result.value = calls[c].rawData

\* C18 (amended): calculate with no Directory set, or with an absent update
\* batch, returns its input unchanged and computes nothing; an empty batch
\* with a Directory set is computed like any other batch and gives no
\* records and zero aggregates.
C18_PassThroughWhenAbsent ==
    \A c \in 1..Len(calls) :
        /\ (~calls[c].headerData \/ calls[c].rawData.absent)
              => /\ calls[c].result.passed
                 /\ calls[c].result.value = calls[c].rawData
        /\ (calls[c].headerData /\ ~calls[c].rawData.absent /\ calls[c].rawData.items = << >>)
              => /\ ~calls[c].result.passed
                 /\ calls[c].result.data = << >>
                 /\ calls[c].result.aggregates
                       = [pnlAmount |-> 0, pnlPercentage |-> Zero, pCount |-> 0, lCount |-> 0]

\* a batch with a held symbol came back unchanged because no Directory was
\* set
C18_Witness ==
    \E c \in 1..Len(calls) :
        /\ ~calls[c].headerData
        /\ calls[c].rawData.items # << >>
        /\ calls[c].positions[calls[c].rawData.items[1]] # NoPosition
        /\ calls[c].result.passed
        /\ calls[c].result.value = calls[c].rawData

UpdateRecordAt(items, k) == SubSeq(items, 7 * (k - 1) + 1, 7 * k)

HeldPlaces(items, pos) ==
    {k \in 1..(Len(items) \div 7) : pos[UpdateRecordAt(items, k)[1]] # NoPosition}

\* C20: the enriched output holds exactly one 9-field record for each Update
\* Record of the batch whose symbolIndex has a Position and none for the
\* others, and the first 7 fields of each record are those of its Update
\* Record.
C20_OneRecordPerHeldUpdate ==
    \A c \in Computed :
        LET items == calls[c].rawData.items
            held == HeldPlaces(items, calls[c].positions)
            r == calls[c].result
            n == RecordCount(r)
        IN  /\ Len(r.data) = 9 * n
            /\ n = Cardinality(held)
            /\ \A k \in 1..n :
                   \E h \in held : SubSeq(EnrichedRecord(r, k), 1, 7) = UpdateRecordAt(items, h)
            /\ \A h \in held :
                   Cardinality({g \in held : UpdateRecordAt(items, g) = UpdateRecordAt(items, h)})
                     = Cardinality({k \in 1..n : SubSeq(EnrichedRecord(r, k), 1, 7)
                                                    = UpdateRecordAt(items, h)})

\* a batch of three records, one of them of a symbol without a Position,
\* gave two enriched records
C20_Witness ==
    \E c \in Computed :
        /\ Len(calls[c].rawData.items) = 21
        /\ Cardinality(HeldPlaces(calls[c].rawData.items, calls[c].positions)) = 2
        /\ RecordCount(calls[c].result) = 2

\* C29: ranking by ordered insertion of each new record
\* (pnl-calculator-worker.js) and ranking by sorting the two partitions once
\* per batch (websocket.worker.ts) give the identical final sequence for
\* every batch and Position table, also when records have equal
\* unrealizedPLPercent.
C29_InsertionEqualsSortOnce ==
    \A c \in Computed :
        calls[c].result.data = SortedData(calls[c].positions, calls[c].rawData)

\* a batch was ranked that has two records of equal unrealizedPLPercent
\* and a record that ranks in front of both although it came after them
C29_Witness ==
    \E c \in Computed :
        /\ \E j, k \in 1 .. RecordCount(calls[c].result) :
               /\ j < k
               /\ PercentOf(calls[c].result, j) = PercentOf(calls[c].result, k)
               /\ EnrichedRecord(calls[c].result, j) # EnrichedRecord(calls[c].result, k)
        /\ calls[c].result.data #
               Flat(LET acc == PushLoop(InitialAccumulators, calls[c].positions,
                                        calls[c].rawData.items, 0)
                    IN  acc.lossesData \o acc.profitsData)

\* C38: when every position of the batch has quantity > 0 and entryPrice > 0,
\* lCount is the number of records with unrealizedPLPercent < 0 (the losses
\* partition of the ranking) and pCount is the number of records with
\* unrealizedPLPercent > 0.
C38_CountsAgreeWithRanking ==
    \A c \in Computed :
        LET r == calls[c].result
            n == RecordCount(r)
        IN  (\A k \in 1..n :
                LET position == calls[c].positions[EnrichedRecord(r, k)[1]]
                IN  position[1] > 0 /\ position[2] > 0)
              => /\ r.aggregates.lCount
                       = Cardinality({k \in 1..n : Less(PercentOf(r, k), Zero)})
                 /\ r.aggregates.pCount
                       = Cardinality({k \in 1..n : Less(Zero, PercentOf(r, k))})

(***************************************************************************)
(* Claims about the update generator (checked under SpecGen)               *)
(***************************************************************************)
\* the records of the k-th emitted array
RecordsOf(k) == {emitted[k][j] : j \in 1 .. Len(emitted[k])}

\* C21: after any number of ticks every Update Record the generator emits
\* has last > 0, high >= last >= low, a volume that is a whole number >= 0,
\* and a symbolIndex that is an index of the Directory.
C21_EmittedRecordsWellFormed ==
    \A k \in 1 .. Len(emitted) :
        \A r \in RecordsOf(k) :
            /\ r[2] > 0
            /\ r[5] >= r[2]
            /\ r[2] >= r[6]
            /\ r[7] \in Nat
            /\ r[1] \in 0 .. DataLength - 1

\* two ticks have been emitted, one record's price sits on the floor and
\* another record's high lies above its price
C21_Witness ==
    /\ Len(emitted) >= 2
    /\ \E r \in RecordsOf(2) : r[2] = MinPrice /\ originalPrices[r[1]] = 0
    /\ \E r \in RecordsOf(2) : r[5] > r[2] /\ r[2] > r[6]

\* C22: a tick emits records only for the symbols that changed in it: no
\* record equals the record the previous tick emitted for the same symbol,
\* and no symbol occurs twice in one emitted array.
C22_OnlyChangedSymbolsEmitted ==
    \A k \in 1 .. Len(emitted) :
        /\ \A j1, j2 \in 1 .. Len(emitted[k]) :
               emitted[k][j1][1] = emitted[k][j2][1] => j1 = j2
        /\ k > 1 => RecordsOf(k) \cap RecordsOf(k - 1) = {}

\* C23: for every symbol and tick the emitted high is the maximum and the
\* emitted low the minimum of the prices generated for the symbol since
\* startup, and from one tick to the next high never decreases and low
\* never increases.
C23_HighLowAreExtremesOfGeneratedPrices ==
    \A k \in 1 .. Len(emitted) :
        \A r \in RecordsOf(k) :
            LET seen == {generatedPrices[r[1]][n] : n \in 1 .. k + 1}
            IN  /\ r[5] \in seen /\ \A p \in seen : p <= r[5]
                /\ r[6] \in seen /\ \A p \in seen : p >= r[6]
                /\ k > 1 => \A q \in RecordsOf(k - 1) :
                                q[1] = r[1] => r[5] >= q[5] /\ r[6] <= q[6]

(***************************************************************************)
(* Claims about GenericObservable (checked under SpecObs)                  *)
(***************************************************************************)
\* the values of a sequence
Values(seq) == {seq[k] : k \in 1 .. Len(seq)}

\* a sequence of numbers in strictly increasing order
Increasing(seq) == \A j, k \in 1 .. Len(seq) : j < k => seq[j] < seq[k]

\* C24: once the function returned by subscribe has been called, from
\* outside or from inside the callback, for a finite or an infinite
\* generator, the subscriber's callback is never invoked again.
C24_NoCallbackAfterUnsubscribe ==
    [][\A s \in Subscriptions :
           unsubscribed[s] # "no" => received'[s] = received[s]]_vars

\* a subscriber of an infinite generator unsubscribed from inside its
\* callback, and the generator has been pulled again since
C24_Witness ==
    /\ generatorLength = Infinite
    /\ \E s \in Subscriptions :
           /\ unsubscribed[s] = "callback"
           /\ received[s] # << >>
           /\ \A v \in Values(received[s]) : v < yielded

\* C25 as stated: every subscription receives the generator's values in
\* generation order, each once, and a subscription that saw the generator
\* complete has stopped and has received all n values of the generator.
C25_SubscriptionDeliversEveryValue ==
    \A s \in Subscriptions :
        /\ Increasing(received[s])
        /\ completed[s] =>
               /\ ~intervalOn[s]
               /\ received[s] = [k \in 1 .. generatorLength |-> k]

\* C25: the subscriptions of an observable receive the values of its one
\* generator at most one per timer callback, each subscription in
\* generation order and every value exactly once over all subscriptions;
\* a subscription that saw the generator complete has stopped, is not
\* called again, and all n values have been delivered by then: all to that
\* subscription when no other subscription received any.
C25_SubscriptionsShareGenerator ==
    /\ [](/\ \A s \in Subscriptions : Increasing(received[s])
          /\ \A s, t \in Subscriptions :
                 s # t => Values(received[s]) \cap Values(received[t]) = {}
          /\ UNION {Values(received[s]) : s \in Subscriptions} = 1 .. yielded
          /\ \A s \in Subscriptions :
                 completed[s] =>
                     /\ ~intervalOn[s]
                     /\ yielded = generatorLength
                     /\ (\A t \in Subscriptions \ {s} : received[t] = << >>)
                            => received[s] = [k \in 1 .. generatorLength |-> k])
    /\ [][\A s \in Subscriptions :
              /\ Len(received'[s]) <= Len(received[s]) + 1
              /\ completed[s] => received'[s] = received[s]]_vars

\* the only subscription of a generator of two values has received both
\* and has stopped itself on completion
C25_Witness ==
    /\ generatorLength = 2
    /\ intervalIds = 1
    /\ completed[1] /\ ~intervalOn[1] /\ unsubscribed[1] = "no"
    /\ received[1] = << 1, 2 >>

(***************************************************************************)
(* Claims about decode failures in the client network worker (checked      *)
(* under SpecDecode)                                                       *)
(***************************************************************************)
\* C26: when decoding a message's payload fails only that message is
\* dropped: the failure is broadcast as an error, and every decodable
\* message processed after it is still broadcast as what it is, the first
\* message of the socket as the Directory and any other as an Update.
C26_DecodeFailureDropsOnlyThatMessage ==
    \A i \in 1 .. Len(processed) :
        /\ processed[i].kind = "error" <=> ~Decodes(processed[i].msg)
        /\ (/\ Decodes(processed[i].msg)
            /\ \E j \in 1 .. (i - 1) : processed[j].kind = "error")
              => processed[i].kind = (IF processed[i].msg.n = 1 THEN "header" ELSE "update")

(***************************************************************************)
(* Claims about the metrics of the Tier-2 buffer (checked under SpecClient)*)
(***************************************************************************)
\* C27: every drop increments the drop counter: totalDropped is the number
\* of messages the Tier-2 buffer has discarded since its metrics were last
\* reset, so totalReceived = messages still buffered + messages handed out
\* by getNext + totalDropped.
C27_DroppedCountsDiscarded ==
    runtimeBuffer.totalReceived =
        Len(runtimeBuffer.buffer) + handedOut + runtimeBuffer.droppedCount

====
